---- MODULE Spec2Model ----
(***************************************************************************)
(* Model of the caddy-git repository synchronisation service:             *)
(*   pkg/service: Repository.update (guard flag + mutex), runUpdate,       *)
(*   autoUpdater, NewManager, Endpoint.ServeHTTP and validateSignature.    *)
(* Strings are sequences of one-character strings, so that SplitN,         *)
(* TrimSpace, ToUpper and header canonicalisation are computed, not        *)
(* assumed.                                                                *)
(***************************************************************************)
EXTENDS Integers, Sequences, FiniteSets, TLC

(***************************************************************************)
(* Bounds of the model.                                                    *)
(***************************************************************************)
\* number of concurrent request-handling goroutines of the host (Spec)
NumHandlers == 1
\* longest list of repository configurations handed to NewManager (SpecProv)
MaxRepos == 2
\* longest webhook list of a repository configuration (SpecHook)
MaxWebhooks == 2
\* longest list of post-pull commands of a repository configuration (SpecExec)
MaxExecs == 2

(***************************************************************************)
(* Program constants.                                                      *)
(***************************************************************************)
\* len(wantSig) != 64: length of a hex-encoded SHA-256 digest
SigHexLen == 64
StatusOK == 200
StatusUnauthorized == 401
StatusInternalServerError == 500

(***************************************************************************)
(* Strings.                                                                *)
(***************************************************************************)
LowerChars == <<"a","b","c","d","e","f","g","h","i","j","k","l","m",
                "n","o","p","q","r","s","t","u","v","w","x","y","z">>
UpperChars == <<"A","B","C","D","E","F","G","H","I","J","K","L","M",
                "N","O","P","Q","R","S","T","U","V","W","X","Y","Z">>

IsLower(ch) == \E i \in 1..Len(LowerChars) : LowerChars[i] = ch
IsUpper(ch) == \E i \in 1..Len(UpperChars) : UpperChars[i] = ch
ToUpperCh(ch) ==
    IF IsLower(ch)
    THEN UpperChars[CHOOSE i \in 1..Len(LowerChars) : LowerChars[i] = ch]
    ELSE ch
ToLowerCh(ch) ==
    IF IsUpper(ch)
    THEN LowerChars[CHOOSE i \in 1..Len(UpperChars) : UpperChars[i] = ch]
    ELSE ch

\* strings.ToUpper
ToUpper(s) == [i \in 1..Len(s) |-> ToUpperCh(s[i])]

\* net/http Header.Get canonicalises the key it is given
\* (textproto.CanonicalMIMEHeaderKey): first letter and every letter after a
\* '-' upper case, every other letter lower case.
CanonicalHeaderKey(s) ==
    [i \in 1..Len(s) |->
        IF i = 1 \/ s[i-1] = "-" THEN ToUpperCh(s[i]) ELSE ToLowerCh(s[i])]

\* index of the first "=" of s, 0 when there is none
IndexEq(s) ==
    IF \E i \in 1..Len(s) : s[i] = "="
    THEN CHOOSE i \in 1..Len(s) : s[i] = "=" /\ \A j \in 1..(i-1) : s[j] # "="
    ELSE 0

\* strings.SplitN(s, "=", 2)
SplitN2(s) ==
    LET i == IndexEq(s) IN
    IF i = 0
    THEN <<s>>
    ELSE <<SubSeq(s, 1, i - 1), SubSeq(s, i + 1, Len(s))>>

\* strings.TrimSpace
TrimSpace(s) ==
    IF \A i \in 1..Len(s) : s[i] = " "
    THEN <<>>
    ELSE LET first == CHOOSE i \in 1..Len(s) :
                          s[i] # " " /\ \A j \in 1..(i-1) : s[j] = " "
             last  == CHOOSE i \in 1..Len(s) :
                          s[i] # " " /\ \A j \in (i+1)..Len(s) : s[j] = " "
         IN  SubSeq(s, first, last)

(***************************************************************************)
(* Request and configuration vocabulary.                                   *)
(***************************************************************************)
SigHeader == <<"X","-","H","u","b","-","S","i","g","n","a","t","u","r","e",
               "-","2","5","6">>
TokenHeader == <<"X","-","A","u","t","h","-","T","o","k","e","n">>
Sha256Prefix == <<"s","h","a","2","5","6">>

Secret1 == <<"k","e","y">>
Secret2 == <<"K","e","y">>
Body1 == <<"p","u","s","h">>
Body2 == <<"p","u","s","h","!">>
Secrets == {Secret1, Secret2}
Bodies == {Body1, Body2}

HexDigits == <<"0","1","2","3","4","5","6","7","8","9",
               "a","b","c","d","e","f">>

\* position of x in the enumeration of the bounded input set
SecretCode(s) == IF s = Secret1 THEN 1 ELSE IF s = Secret2 THEN 2
                 ELSE IF s = <<>> THEN 3 ELSE 4 + (Len(s) % 8)
BodyCode(b) == IF b = Body1 THEN 1 ELSE IF b = Body2 THEN 2
               ELSE IF b = <<>> THEN 3 ELSE 4 + (Len(b) % 8)

\* hex.EncodeToString(hmac-sha256(secret, body)): 64 hex digits, injective over
\* the bounded secrets and bodies
HmacDigest(secret, body) ==
    [i \in 1..SigHexLen |->
        IF i = 1 THEN HexDigits[SecretCode(secret) + 1]
        ELSE IF i = 2 THEN HexDigits[BodyCode(body) + 1]
        ELSE HexDigits[((i * 7) % 16) + 1]]

\* the digests of the bounded secrets and bodies, computed once
HmacTable == [k \in (Secrets \cup {<<>>}) \X Bodies |-> HmacDigest(k[1], k[2])]

HmacSha256Hex(secret, body) ==
    IF <<secret, body>> \in DOMAIN HmacTable
    THEN HmacTable[<<secret, body>>]
    ELSE HmacDigest(secret, body)


(***************************************************************************)
(* Webhook authentication of Endpoint.ServeHTTP (pure part).               *)
(* A request is [method, headers, body]; headers maps the canonical header *)
(* names to their values, <<>> standing for an absent (or empty) header,   *)
(* which Header.Get does not tell apart. The body is taken as delivered.   *)
(***************************************************************************)
\* header names as a configuration may spell them
SigHeaderLower == [i \in 1..Len(SigHeader) |-> ToLowerCh(SigHeader[i])]

\* the canonical form of the header names of the configurations, computed once
CanonicalKeys ==
    [k \in {SigHeader, ToUpper(SigHeader), SigHeaderLower, TokenHeader} |->
        CanonicalHeaderKey(k)]

\* r.Header.Get(key)
HeaderGet(rq, key) ==
    LET canon == IF key \in DOMAIN CanonicalKeys THEN CanonicalKeys[key]
                 ELSE CanonicalHeaderKey(key)
    IN  IF canon \in DOMAIN rq.headers THEN rq.headers[canon] ELSE <<>>

\* validateSignature without the comparison of the two digests
validateSignature_LengthOnly(rq, wantSig, secret) ==
    IF wantSig = <<>> THEN "empty signature"
    ELSE IF Len(wantSig) # SigHexLen THEN "malformed sha256 hash"
    ELSE "nil"

\* validateSignature(r, wantSig, secret): "nil" or the error
validateSignature(rq, wantSig, secret) ==
    IF wantSig = <<>> THEN "empty signature"
    ELSE IF Len(wantSig) # SigHexLen THEN "malformed sha256 hash"
    ELSE IF wantSig # HmacSha256Hex(secret, rq.body) THEN "signature mismatch"
    ELSE "nil"

\* the switch on webhook.Header: which webhooks get the signature check
IsSignatureHeader(h) == h = SigHeader \/ h = ToUpper(SigHeader)

\* the signature case of the switch, hdr being the non-empty header value
CheckSignature(webhook, rq, hdr) ==
    LET hdrParts == SplitN2(hdr) IN
    IF rq.method # "POST"
    THEN [authFailed |-> TRUE, msg |-> "non-POST request"]
    ELSE IF Len(hdrParts) # 2
    THEN [authFailed |-> TRUE, msg |-> "malformed header"]
    ELSE IF validateSignature(rq, TrimSpace(hdrParts[2]), webhook.Secret) # "nil"
    THEN [authFailed |-> TRUE, msg |-> "signature validation failed"]
    ELSE [authFailed |-> FALSE,
          msg |-> IF hdrParts[1] # Sha256Prefix
                  THEN "malformed header, sha256 not found" ELSE ""]

\* the default case comparing the header value after trimming it
CheckSecret_Trimmed(webhook, rq, hdr) ==
    IF TrimSpace(hdr) # webhook.Secret
    THEN [authFailed |-> TRUE, msg |-> "auth header value mismatch"]
    ELSE [authFailed |-> FALSE, msg |-> ""]

\* the default case of the switch
CheckSecret(webhook, rq, hdr) ==
    IF hdr # webhook.Secret
    THEN [authFailed |-> TRUE, msg |-> "auth header value mismatch"]
    ELSE [authFailed |-> FALSE, msg |-> ""]

CheckWebhook(webhook, rq, hdr) ==
    IF IsSignatureHeader(webhook.Header)
    THEN CheckSignature(webhook, rq, hdr)
    ELSE CheckSecret(webhook, rq, hdr)

\* the loop without its break: the last webhook whose header is present
FirstPresent_Last(webhooks, rq) ==
    IF \E i \in 1..Len(webhooks) : HeaderGet(rq, webhooks[i].Header) # <<>>
    THEN CHOOSE i \in 1..Len(webhooks) :
            /\ HeaderGet(rq, webhooks[i].Header) # <<>>
            /\ \A j \in (i+1)..Len(webhooks) : HeaderGet(rq, webhooks[j].Header) = <<>>
    ELSE 0

\* the loop over repo.Config.Webhooks: the first webhook whose header the
\* request carries is evaluated and decides; evaluated = 0 when none is found
FirstPresent(webhooks, rq) ==
    IF \E i \in 1..Len(webhooks) : HeaderGet(rq, webhooks[i].Header) # <<>>
    THEN CHOOSE i \in 1..Len(webhooks) :
            /\ HeaderGet(rq, webhooks[i].Header) # <<>>
            /\ \A j \in 1..(i-1) : HeaderGet(rq, webhooks[j].Header) = <<>>
    ELSE 0

\* the inspection without the `if !authorized` that follows the loop
WebhookAuth_MissingOK(webhooks, rq) ==
    LET i == FirstPresent(webhooks, rq) IN
    IF i = 0
    THEN [authorized |-> TRUE, evaluated |-> 0, msg |-> ""]
    ELSE LET res == CheckWebhook(webhooks[i], rq, HeaderGet(rq, webhooks[i].Header))
         IN  [authorized |-> ~res.authFailed, evaluated |-> i, msg |-> res.msg]

WebhookAuth(webhooks, rq) ==
    LET i == FirstPresent(webhooks, rq) IN
    IF i = 0
    THEN [authorized |-> FALSE, evaluated |-> 0, msg |-> "auth header not found"]
    ELSE LET res == CheckWebhook(webhooks[i], rq, HeaderGet(rq, webhooks[i].Header))
         IN  [authorized |-> ~res.authFailed, evaluated |-> i, msg |-> res.msg]

NoAuthRecord == [authorized |-> FALSE, evaluated |-> 0, msg |-> ""]

\* the status of a successful update written for a repository not found
NotFoundStatus_OK == StatusOK

\* status written when the repository is not in the registry
NotFoundStatus == StatusInternalServerError

\* ServeHTTP up to the call of repo.update: the status it responds with at
\* once (0 when it goes on to update). idx = 0: the repository was not found.
ServeHTTPGate(idx, webhooks, rq) ==
    LET res == WebhookAuth(webhooks, rq) IN
    IF idx = 0
    THEN [status |-> NotFoundStatus, auth |-> NoAuthRecord]
    ELSE IF Len(webhooks) > 0 /\ ~res.authorized
    THEN [status |-> StatusUnauthorized, auth |-> res]
    ELSE [status |-> 0,
          auth |-> IF Len(webhooks) > 0 THEN res ELSE NoAuthRecord]


(***************************************************************************)
(* Configuration (pkg/service/config.go).                                  *)
(* An address is a sequence of tokens (scheme prefix, path, suffix); a     *)
(* directory is a sequence of path elements, "~" being the home shorthand. *)
(***************************************************************************)
HomeDir == "/home/caddy"

NilAuth == [isNil |-> TRUE, Username |-> <<>>, Password |-> <<>>,
            KeyPath |-> <<>>, KeyPassphrase |-> <<>>,
            StrictHostKeyCheckingDisabled |-> FALSE]

Pager == [Name |-> "Pager", Command |-> "/usr/local/bin/pager",
          Args |-> <<"pulled">>]
Build == [Name |-> "Build", Command |-> "/usr/bin/make", Args |-> <<"site">>]
\* an entry without a command
NoCommand == [Name |-> "Idle", Command |-> "", Args |-> <<>>]

\* a repository cloned over ssh with a key, with auto-update, a post-pull
\* command and no webhook
SiteConfig ==
    [Name |-> "site", Address |-> <<"git@", "example.org:site", ".git">>,
     BaseDir |-> <<"~", "www">>, Branch |-> "gh-pages", Depth |-> 1,
     UpdateInterval |-> 60,
     Auth |-> [NilAuth EXCEPT !.isNil = FALSE, !.KeyPath = <<"~", ".ssh", "id_rsa">>],
     Webhooks |-> <<>>, PostPullExec |-> <<Pager>>, transport |-> ""]

\* a repository updated by triggers only, guarded by a shared-secret webhook
DocsConfig ==
    [Name |-> "docs", Address |-> <<"https://", "example.org/docs", ".git">>,
     BaseDir |-> <<"/srv">>, Branch |-> "", Depth |-> 0,
     UpdateInterval |-> 0, Auth |-> NilAuth,
     Webhooks |-> <<[Name |-> "Hook", Header |-> TokenHeader, Secret |-> Secret1]>>,
     PostPullExec |-> <<>>, transport |-> ""]

\* the names an endpoint may be configured with: the last one is never registered
AllNames == {"site", "docs", "ghost"}

\* strings.HasPrefix / strings.HasSuffix on addresses
HasPrefix(addr, p) == Len(addr) > 0 /\ addr[1] = p
HasSuffix(addr, x) == Len(addr) > 0 /\ addr[Len(addr)] = x

\* RepositoryConfig.validate: "nil" or the error
validate(rc) ==
    IF rc.Address = <<>> THEN "address is empty"
    ELSE IF ~HasSuffix(rc.Address, ".git") THEN "address is unsupported"
    ELSE "nil"

\* the transport validate derives from the address
transportOf(rc) ==
    IF HasPrefix(rc.Address, "https://") \/ HasPrefix(rc.Address, "http://")
    THEN "http" ELSE "ssh"

\* expandDir(s); homeOK: os.UserHomeDir succeeded
expandDir(s, homeOK) ==
    IF s = <<>> \/ s[1] # "~" THEN s
    ELSE IF ~homeOK THEN s
    ELSE <<HomeDir>> \o Tail(s)

(***************************************************************************)
(* Config.AddRepository. The argument is a pointer: isNil, or the          *)
(* RepositoryConfig rc it points to, whose Name is a sequence of           *)
(* characters here so that strings.TrimSpace is computed.                  *)
(***************************************************************************)
\* the map of a Config that AddRepository has not written to
NoRepoMap == [n \in {} |-> 0]

\* no call of AddRepository yet
NoAdd == [arg |-> [isNil |-> TRUE, rc |-> SiteConfig], err |-> "none"]

\* AddRepository without the lookup of the name in repoMap
AddResult_NoLookup(list, map, p) ==
    IF p.isNil
    THEN [err |-> "config is nil", Repositories |-> list, repoMap |-> map]
    ELSE LET rc == [p.rc EXCEPT !.Name = TrimSpace(p.rc.Name)] IN
         IF rc.Name = <<>>
         THEN [err |-> "name is empty", Repositories |-> list, repoMap |-> map]
         ELSE IF validate(rc) # "nil"
         THEN [err |-> validate(rc), Repositories |-> list, repoMap |-> map]
         ELSE [err |-> "nil",
               Repositories |-> Append(list, [rc EXCEPT !.transport = transportOf(rc)]),
               repoMap |-> [n \in DOMAIN map \cup {rc.Name} |->
                               IF n = rc.Name THEN Len(list) + 1 ELSE map[n]]]

\* cfg.AddRepository(rc): the error returned ("nil": none) and the list and
\* the map it leaves
AddResult(list, map, p) ==
    IF p.isNil
    THEN [err |-> "config is nil", Repositories |-> list, repoMap |-> map]
    ELSE LET rc == [p.rc EXCEPT !.Name = TrimSpace(p.rc.Name)] IN
         IF rc.Name = <<>>
         THEN [err |-> "name is empty", Repositories |-> list, repoMap |-> map]
         ELSE IF rc.Name \in DOMAIN map
         THEN [err |-> "name already exists", Repositories |-> list, repoMap |-> map]
         ELSE IF validate(rc) # "nil"
         THEN [err |-> validate(rc), Repositories |-> list, repoMap |-> map]
         ELSE [err |-> "nil",
               Repositories |-> Append(list, [rc EXCEPT !.transport = transportOf(rc)]),
               repoMap |-> [n \in DOMAIN map \cup {rc.Name} |->
                               IF n = rc.Name THEN Len(list) + 1 ELSE map[n]]]

(***************************************************************************)
(* The Caddyfile parsers. A token is a sequence of pieces, each plain text  *)
(* or a placeholder; the string fields of a configuration a parser builds   *)
(* hold tokens. Indexing a slice beyond its length panics: the result       *)
(* "panic" of a parser.                                                     *)
(***************************************************************************)
badRepl == "ERROR_BAD_REPL"

\* repl.ReplaceAll(item, badRepl): a placeholder the replacer has a value for
\* becomes that value, any other placeholder becomes badRepl
ReplaceAll(tok) ==
    [i \in 1..Len(tok) |->
        IF tok[i] = "{env.HOME}" THEN HomeDir
        ELSE IF tok[i] = "{nope}" THEN badRepl
        ELSE tok[i]]

findReplace(arr) == [i \in 1..Len(arr) |-> ReplaceAll(arr[i])]

findString(arr, x) == \E i \in 1..Len(arr) : arr[i] = <<x>>

argRules ==
    [k \in {"base_dir", "url", "auth", "branch", "depth", "update", "webhook",
            "post"} |->
        IF k \in {"base_dir", "url", "branch", "depth"} THEN [Min |-> 1, Max |-> 1]
        ELSE IF k = "auth" THEN [Min |-> 2, Max |-> 255]
        ELSE IF k = "update" THEN [Min |-> 1, Max |-> 255]
        ELSE IF k = "webhook" THEN [Min |-> 3, Max |-> 3]
        ELSE [Min |-> 2, Max |-> 2]]

validateArg(k, v) ==
    IF k \notin DOMAIN argRules THEN "nil"
    ELSE IF argRules[k].Min > Len(v) THEN "too few args"
    ELSE IF argRules[k].Max < Len(v) THEN "too many args"
    ELSE "nil"

\* strconv.Atoi on the tokens used here
Atoi(tok) ==
    IF tok = <<"0">> THEN [ok |-> TRUE, n |-> 0]
    ELSE IF tok = <<"1">> THEN [ok |-> TRUE, n |-> 1]
    ELSE IF tok = <<"60">> THEN [ok |-> TRUE, n |-> 60]
    ELSE [ok |-> FALSE, n |-> 0]

\* service.NewRepositoryConfig(), &service.AuthConfig{}, &service.ExecConfig{}
NewRepositoryConfig ==
    [Name |-> <<>>, Address |-> <<>>, BaseDir |-> <<>>, Branch |-> <<>>,
     Depth |-> 0, UpdateInterval |-> 0, Auth |-> NilAuth, Webhooks |-> <<>>,
     PostPullExec |-> <<>>, transport |-> ""]
NewAuthConfig == [NilAuth EXCEPT !.isNil = FALSE]
NewExecConfig == [Name |-> <<>>, Command |-> <<>>, Args |-> <<>>]

\* case "auth" up to the host key flag: [err, auth]
AuthCase(v) ==
    IF Len(v) < 1 THEN [err |-> "panic", auth |-> NewAuthConfig]
    ELSE IF v[1] = <<"key">>
    THEN IF Len(v) < 2
         THEN [err |-> "malformed directive", auth |-> NewAuthConfig]
         ELSE IF Len(v) > 2 /\ v[3] = <<"passphrase">>
         THEN IF Len(v) < 4
              THEN [err |-> "panic", auth |-> NewAuthConfig]
              ELSE [err |-> "nil",
                    auth |-> [NewAuthConfig EXCEPT !.KeyPath = v[2],
                                                   !.KeyPassphrase = v[4]]]
         ELSE [err |-> "nil", auth |-> [NewAuthConfig EXCEPT !.KeyPath = v[2]]]
    ELSE IF v[1] = <<"username">>
    THEN IF Len(v) < 4
         THEN [err |-> "malformed directive", auth |-> NewAuthConfig]
         ELSE [err |-> "nil",
               auth |-> [NewAuthConfig EXCEPT
                           !.Username = v[2],
                           !.Password = IF v[3] = <<"password">> THEN v[4]
                                        ELSE <<>>]]
    ELSE [err |-> "nil", auth |-> NewAuthConfig]

\* the entries of a post pull exec block from entry i on: [err, exec]
RECURSIVE ExecEntries(_, _, _)
ExecEntries(ppe, sub, i) ==
    IF i > Len(sub) THEN [err |-> "nil", exec |-> ppe]
    ELSE LET nk    == sub[i].k
             nargs == findReplace(sub[i].v)
         IN  IF nk = "name"
             THEN IF Len(nargs) < 1 THEN [err |-> "panic", exec |-> ppe]
                  ELSE ExecEntries([ppe EXCEPT !.Name = nargs[1]], sub, i + 1)
             ELSE IF nk = "command"
             THEN IF Len(nargs) < 1 THEN [err |-> "panic", exec |-> ppe]
                  ELSE ExecEntries([ppe EXCEPT !.Command = nargs[1]], sub, i + 1)
             ELSE IF nk = "args"
             THEN ExecEntries([ppe EXCEPT !.Args = nargs], sub, i + 1)
             ELSE [err |-> "malformed directive", exec |-> ppe]

\* one entry of a repo block: [err, rc]
RepoEntry(rc, e) ==
    LET k == e.k
        v == findReplace(e.v)
        Fail(msg) == [err |-> msg, rc |-> rc]
        Ok(r) == [err |-> "nil", rc |-> r]
    IN
    IF validateArg(k, v) # "nil" THEN Fail(validateArg(k, v))
    ELSE IF k \in {"base_dir", "url", "branch", "depth"} /\ Len(v) < 1
    THEN Fail("panic")
    ELSE IF k = "base_dir" THEN Ok([rc EXCEPT !.BaseDir = v[1]])
    ELSE IF k = "url" THEN Ok([rc EXCEPT !.Address = v[1]])
    ELSE IF k = "auth"
    THEN LET a == AuthCase(v) IN
         IF a.err # "nil" THEN Fail(a.err)
         ELSE Ok([rc EXCEPT
                    !.Auth = [a.auth EXCEPT
                                !.StrictHostKeyCheckingDisabled =
                                    findString(v, "no_strict_host_key_check")]])
    ELSE IF k = "webhook"
    THEN IF Len(v) < 3 THEN Fail("panic")
         ELSE Ok([rc EXCEPT
                    !.Webhooks = Append(@, [Name |-> v[1], Header |-> v[2],
                                            Secret |-> v[3]])])
    ELSE IF k = "branch" THEN Ok([rc EXCEPT !.Branch = v[1]])
    ELSE IF k = "depth"
    THEN IF Atoi(v[1]).ok THEN Ok([rc EXCEPT !.Depth = Atoi(v[1]).n])
         ELSE Fail("not integer")
    ELSE IF k = "post"
    THEN IF v = << <<"pull">>, <<"exec">> >>
         THEN LET x == ExecEntries(NewExecConfig, e.sub, 1) IN
              IF x.err # "nil" THEN Fail(x.err)
              ELSE Ok([rc EXCEPT !.PostPullExec = Append(@, x.exec)])
         ELSE Fail("malformed directive")
    ELSE IF k = "update"
    THEN IF Len(v) # 2 THEN Fail("malformed directive")
         ELSE IF v[1] # <<"every">> THEN Fail("malformed directive")
         ELSE IF Atoi(v[2]).ok THEN Ok([rc EXCEPT !.UpdateInterval = Atoi(v[2]).n])
         ELSE Fail("not integer")
    ELSE Fail("unsupported key")

\* the entries of a repo block from entry i on
RECURSIVE RepoEntries(_, _, _)
RepoEntries(rc, block, i) ==
    IF i > Len(block) THEN [err |-> "nil", rc |-> rc]
    ELSE LET out == RepoEntry(rc, block[i]) IN
         IF out.err # "nil" THEN out ELSE RepoEntries(out.rc, block, i + 1)

\* parseCaddyfileAppConfig on `git { repo <name> { <block> } }`: [err, isNil,
\* Repositories], the error ("nil": none), and the app configuration returned
\* or none
parseCaddyfileAppConfig(name, block) ==
    LET rc0 == [NewRepositoryConfig EXCEPT !.Name = name]
        out == RepoEntries(rc0, block, 1)
        add == AddResult(<<>>, NoRepoMap, [isNil |-> FALSE, rc |-> out.rc])
    IN  IF out.err # "nil"
        THEN [err |-> out.err, isNil |-> TRUE, Repositories |-> <<>>]
        ELSE IF add.err # "nil"
        THEN [err |-> add.err, isNil |-> TRUE, Repositories |-> <<>>]
        ELSE [err |-> "nil", isNil |-> FALSE, Repositories |-> add.Repositories]

\* strings.Join(args, " ") as the words between its spaces; a token is the
\* sequence of the words it holds
RECURSIVE JoinArgs(_, _)
JoinArgs(args, i) ==
    IF i > Len(args) THEN <<>> ELSE args[i] \o JoinArgs(args, i + 1)

\* strings.Contains(strArgs, "update repo ")
ContainsUpdateRepo(words) ==
    \E i \in 1..Len(words) :
        i + 2 <= Len(words) /\ words[i] = "update" /\ words[i + 1] = "repo"

NoEndpoint == [Path |-> <<>>, RepositoryName |-> <<>>]

\* parseCaddyfileHandlerConfig on one `git <args>` directive: [err, endpoint]
parseCaddyfileHandlerConfig(args) ==
    LET Fail(msg) == [err |-> msg, endpoint |-> NoEndpoint] IN
    IF ~ContainsUpdateRepo(JoinArgs(args, 1)) THEN Fail("unsupported config")
    ELSE IF Len(args) < 1 THEN Fail("panic")
    ELSE IF args[1] = <<"update">> /\ Len(args) < 2 THEN Fail("panic")
    ELSE IF args[1] = <<"update">> /\ args[2] = <<"repo">>
    THEN IF Len(args) # 3 THEN Fail("malformed config")
         ELSE [err |-> "nil",
               endpoint |-> [Path |-> <<"*">>, RepositoryName |-> args[3]]]
    ELSE IF Len(args) < 2 THEN Fail("panic")
    ELSE IF args[2] = <<"update">> /\ Len(args) < 3 THEN Fail("panic")
    ELSE IF args[2] = <<"update">> /\ args[3] = <<"repo">>
    THEN IF Len(args) # 4 THEN Fail("malformed config")
         ELSE [err |-> "nil",
               endpoint |-> [Path |-> args[1], RepositoryName |-> args[4]]]
    ELSE Fail("malformed config")

\* no parser has been called
NoParse ==
    [fn |-> "none", name |-> <<>>, block |-> <<>>, args |-> <<>>,
     done |-> FALSE, err |-> "none", isNil |-> TRUE, Repositories |-> <<>>,
     endpoint |-> NoEndpoint]

(***************************************************************************)
(* Repository.runUpdate as a function of the configuration, the directory  *)
(* tree and what the environment does: at most one step of the call fails  *)
(* (fault), and the pull finds new commits or none (pull).                 *)
(***************************************************************************)
Faults == {"none", "home", "statbase", "mkdir", "statrepo", "key", "clone",
           "open", "pull", "head"}
\* the key file may also load for the clone and fail to load for the pull
KeyFaults == Faults \cup {"pullkey"}
PullResults == {"updated", "uptodate"}
\* the environment of the concurrency specification: each kind of step may
\* fail, the post-pull commands run without error
ConcFaults == {"none", "mkdir", "key", "clone", "open", "pull"}
ConcPulls == {"uptodate"}
ConcExecs == {TRUE}

\* an operation of runUpdate, and the run of a post-pull command
Op(name, ok) == [op |-> name, ok |-> ok, cmd |-> ""]
ExecOp(command, ok) == [op |-> "exec", ok |-> ok, cmd |-> command]

\* configureAuthOptions fails only when a key file has to be loaded
LoadsKey(rc) == ~rc.Auth.isNil /\ rc.transport = "ssh" /\ rc.Auth.KeyPath # <<>>

\* the configuration after configureAuthOptions expanded the key path
WithKeyPath(rc, homeOK) ==
    IF rc.Auth.isNil THEN rc
    ELSE [rc EXCEPT !.Auth.KeyPath = expandDir(rc.Auth.KeyPath, homeOK)]

\* the tokens of an address that end with "@", and what each holds before it
AtTokens == {"git@", "deploy@", "site@", "@"}
UserPart(tok) ==
    IF tok = "git@" THEN <<"g", "i", "t">>
    ELSE IF tok = "deploy@" THEN <<"d", "e", "p", "l", "o", "y">>
    ELSE IF tok = "site@" THEN <<"s", "i", "t", "e">>
    ELSE <<>>

\* strings.Contains(cfg.Address, "@")
ContainsAt(addr) == \E k \in 1..Len(addr) : addr[k] \in AtTokens

\* strings.SplitN(cfg.Address, "@", 2)[0]: the address before its first "@"
BeforeAt(addr) ==
    LET k == CHOOSE k \in 1..Len(addr) :
                 addr[k] \in AtTokens /\ \A j \in 1..(k-1) : addr[j] \notin AtTokens
    IN  SubSeq(addr, 1, k - 1) \o UserPart(addr[k])

DefaultUser == <<"g", "i", "t">>

\* the user of the key-based credentials: the cases of the switch, then the
\* default for a user that is still empty
publicKeysUser(rc) ==
    LET u == IF ContainsAt(rc.Address) THEN BeforeAt(rc.Address)
             ELSE IF rc.Auth.Username # <<>> THEN rc.Auth.Username
             ELSE <<>>
    IN  IF u = <<>> THEN DefaultUser ELSE u

\* the transport.AuthMethod values: nil, *http.BasicAuth, *ssh.PublicKeys and
\* *ssh.Password; insecure: the host key callback accepts any host key
NoAuthMethod ==
    [kind |-> "none", user |-> <<>>, password |-> <<>>, keyPath |-> <<>>,
     passphrase |-> <<>>, insecure |-> FALSE]
BasicAuth(a) ==
    [NoAuthMethod EXCEPT !.kind = "basic", !.user = a.Username,
                         !.password = a.Password]
PublicKeys(rc) ==
    [NoAuthMethod EXCEPT !.kind = "publickeys", !.user = publicKeysUser(rc),
                         !.keyPath = rc.Auth.KeyPath,
                         !.passphrase = rc.Auth.KeyPassphrase,
                         !.insecure = rc.Auth.StrictHostKeyCheckingDisabled]
\* password credentials that accept any host key whatever the flag
PasswordAuth_AnyHostKey(a) ==
    [NoAuthMethod EXCEPT !.kind = "password", !.user = a.Username,
                         !.password = a.Password, !.insecure = TRUE]

PasswordAuth(a) ==
    [NoAuthMethod EXCEPT !.kind = "password", !.user = a.Username,
                         !.password = a.Password,
                         !.insecure = a.StrictHostKeyCheckingDisabled]

\* configureAuthOptions going on without credentials when the key file
\* cannot be loaded
configureAuthOptions_IgnoreKeyError(rc, keyOK) ==
    IF rc.Auth.isNil THEN [method |-> NoAuthMethod, err |-> "nil"]
    ELSE IF rc.transport = "http"
    THEN [method |-> IF rc.Auth.Username # <<>> THEN BasicAuth(rc.Auth)
                     ELSE NoAuthMethod,
          err |-> "nil"]
    ELSE IF rc.transport = "ssh"
    THEN IF rc.Auth.KeyPath # <<>>
         THEN [method |-> IF keyOK THEN PublicKeys(rc) ELSE NoAuthMethod,
               err |-> "nil"]
         ELSE [method |-> IF rc.Auth.Username # <<>> THEN PasswordAuth(rc.Auth)
                          ELSE NoAuthMethod,
               err |-> "nil"]
    ELSE [method |-> NoAuthMethod, err |-> "nil"]

\* configureAuthOptions trying the username before the key path
configureAuthOptions_UsernameFirst(rc, keyOK) ==
    IF rc.Auth.isNil THEN [method |-> NoAuthMethod, err |-> "nil"]
    ELSE IF rc.transport = "http"
    THEN [method |-> IF rc.Auth.Username # <<>> THEN BasicAuth(rc.Auth)
                     ELSE NoAuthMethod,
          err |-> "nil"]
    ELSE IF rc.transport = "ssh"
    THEN IF rc.Auth.Username # <<>>
         THEN [method |-> PasswordAuth(rc.Auth), err |-> "nil"]
         ELSE IF rc.Auth.KeyPath # <<>>
         THEN IF keyOK THEN [method |-> PublicKeys(rc), err |-> "nil"]
              ELSE [method |-> NoAuthMethod, err |-> "key"]
         ELSE [method |-> NoAuthMethod, err |-> "nil"]
    ELSE [method |-> NoAuthMethod, err |-> "nil"]

\* configureAuthOptions(cfg), cfg.Auth.KeyPath being expanded already:
\* [method, err], the credentials and the error returned ("nil": none);
\* keyOK: ssh.NewPublicKeysFromFile can load the key file
configureAuthOptions(rc, keyOK) ==
    IF rc.Auth.isNil THEN [method |-> NoAuthMethod, err |-> "nil"]
    ELSE IF rc.transport = "http"
    THEN [method |-> IF rc.Auth.Username # <<>> THEN BasicAuth(rc.Auth)
                     ELSE NoAuthMethod,
          err |-> "nil"]
    ELSE IF rc.transport = "ssh"
    THEN IF rc.Auth.KeyPath # <<>>
         THEN IF keyOK THEN [method |-> PublicKeys(rc), err |-> "nil"]
              ELSE [method |-> NoAuthMethod, err |-> "key"]
         ELSE [method |-> IF rc.Auth.Username # <<>> THEN PasswordAuth(rc.Auth)
                          ELSE NoAuthMethod,
               err |-> "nil"]
    ELSE [method |-> NoAuthMethod, err |-> "nil"]

\* no call of configureAuthOptions yet
NoAuthOut == [called |-> FALSE, keyOK |-> TRUE, method |-> NoAuthMethod,
              err |-> "none"]

\* the attempt to load the key file, when configureAuthOptions makes one
KeyOps(rc, keyOK) == IF LoadsKey(rc) THEN <<Op("key", keyOK)>> ELSE <<>>

\* path.Join(base, name) of a directory and a name: an empty name adds nothing
pathJoin(base, name) == IF name = "" THEN base ELSE Append(base, name)

\* dirExists(s) when os.Stat does not fail: the empty path counts as existing
dirExists(s, d) == s = <<>> \/ s \in d

\* the pull phase (repo.go lines 132-175); rc, d, ops: configuration,
\* directories and operations after the clone phase. A pull that returns
\* NoErrAlreadyUpToDate is the operation "uptodate"; after a pull that
\* returned nil the branch tip and its commit are read, the operation "head".
\* The key file is loaded again for the pull options, the operation "key".
PullPhase(rc0, d, ops0, fault, pull) ==
    LET homeOK == fault # "home"
        rc     == WithKeyPath(rc0, homeOK)
        keyOK  == fault \notin {"key", "pullkey"}
        a      == configureAuthOptions(rc, keyOK)
        ops1   == Append(ops0, Op("open", TRUE)) \o KeyOps(rc, keyOK)
    IN
    IF fault = "open"
    THEN [err |-> "open", rc |-> rc0, dirs |-> d, ops |-> Append(ops0, Op("open", FALSE))]
    ELSE IF a.err # "nil"
    THEN [err |-> a.err, rc |-> rc, dirs |-> d, ops |-> ops1]
    ELSE IF fault = "pull"
    THEN [err |-> "pull", rc |-> rc, dirs |-> d,
          ops |-> Append(ops1, Op("pull", FALSE))]
    ELSE IF pull = "uptodate"
    THEN [err |-> "nil", rc |-> rc, dirs |-> d,
          ops |-> Append(ops1, Op("uptodate", TRUE))]
    ELSE IF fault = "head"
    THEN [err |-> "head", rc |-> rc, dirs |-> d,
          ops |-> ops1 \o <<Op("pull", TRUE), Op("head", FALSE)>>]
    ELSE [err |-> "nil", rc |-> rc, dirs |-> d,
          ops |-> ops1 \o <<Op("pull", TRUE), Op("head", TRUE)>>]

\* the clone phase cloning whether or not the directory is there
ClonePhase_NoCheck(rc0, d, ops0, fault, pull) ==
    LET repoDir == pathJoin(rc0.BaseDir, rc0.Name)
        rc      == WithKeyPath(rc0, fault # "home")
    IN  PullPhase(rc, d \cup {repoDir},
                  ops0 \o <<Op("exists", dirExists(repoDir, d)), Op("clone", TRUE)>>,
                  fault, pull)

\* the clone phase (repo.go lines 116-130), the base directory being there.
\* The check of the repository directory is the operation "exists", its ok
\* telling what dirExists answered; a check that fails is a failed "stat".
\* The key file is loaded for the clone options, the operation "key".
ClonePhase(rc0, d, ops0, fault, pull) ==
    LET homeOK  == fault # "home"
        repoDir == pathJoin(rc0.BaseDir, rc0.Name)
        rc      == WithKeyPath(rc0, homeOK)
        keyOK   == fault # "key"
        a       == configureAuthOptions(rc, keyOK)
        ops1    == Append(ops0, Op("exists", FALSE)) \o KeyOps(rc, keyOK)
    IN
    IF fault = "statrepo" /\ repoDir # <<>>
    THEN [err |-> "stat", rc |-> rc0, dirs |-> d, ops |-> Append(ops0, Op("stat", FALSE))]
    ELSE IF dirExists(repoDir, d)
    THEN PullPhase(rc0, d, Append(ops0, Op("exists", TRUE)), fault, pull)
    ELSE IF a.err # "nil"
    THEN [err |-> a.err, rc |-> rc, dirs |-> d, ops |-> ops1]
    ELSE IF fault = "clone"
    THEN [err |-> "clone", rc |-> rc, dirs |-> d,
          ops |-> Append(ops1, Op("clone", FALSE))]
    ELSE PullPhase(rc, d \cup {repoDir}, Append(ops1, Op("clone", TRUE)),
                   fault, pull)

\* runUpdate: [err, rc, dirs, ops], the error returned ("nil": none), the
\* configuration it leaves, the directories it leaves and the I/O it did
runUpdate(rc0, d, fault, pull) ==
    LET homeOK == fault # "home"
        rc     == [rc0 EXCEPT !.BaseDir = expandDir(rc0.BaseDir, homeOK)]
        base   == rc.BaseDir
    IN
    IF base = <<>>
    THEN ClonePhase(rc, d, <<>>, fault, pull)
    ELSE IF fault = "statbase"
    THEN [err |-> "stat", rc |-> rc, dirs |-> d, ops |-> <<Op("stat", FALSE)>>]
    ELSE IF base \in d
    THEN ClonePhase(rc, d, <<Op("stat", TRUE)>>, fault, pull)
    ELSE IF fault = "mkdir"
    THEN [err |-> "mkdir", rc |-> rc, dirs |-> d,
          ops |-> <<Op("stat", TRUE), Op("mkdir", FALSE)>>]
    ELSE ClonePhase(rc, d \cup {base},
                    <<Op("stat", TRUE), Op("mkdir", TRUE)>>, fault, pull)

\* runPostPullExec: one operation per entry that has a command; oks[i] tells
\* whether command i ran without error. A failure is logged and skipped over.
RECURSIVE ExecOps(_, _, _)
ExecOps(execs, oks, i) ==
    IF i > Len(execs) THEN <<>>
    ELSE (IF execs[i].Command # "" THEN <<ExecOp(execs[i].Command, oks[i])>>
          ELSE <<>>)
         \o ExecOps(execs, oks, i + 1)

\* a loop that ends at the first command that fails
RECURSIVE ExecOpsUntilFailure(_, _, _)
ExecOpsUntilFailure(execs, oks, i) ==
    IF i > Len(execs) THEN <<>>
    ELSE IF execs[i].Command = "" THEN ExecOpsUntilFailure(execs, oks, i + 1)
    ELSE IF ~oks[i] THEN <<ExecOp(execs[i].Command, FALSE)>>
    ELSE <<ExecOp(execs[i].Command, TRUE)>>
         \o ExecOpsUntilFailure(execs, oks, i + 1)

runPostPullExec_StopAtFailure(execs, oks) == ExecOpsUntilFailure(execs, oks, 1)

runPostPullExec(execs, oks) == ExecOps(execs, oks, 1)


(***************************************************************************)
(* State.                                                                  *)
(***************************************************************************)
VARIABLES
    cfg,       \* cfg.Repositories: the RepositoryConfig of each Repository
    manager,   \* the package variable manager: "nil" or "set"
    repos,     \* manager.repos: name -> index of the Repository, 0: no entry
    updating,  \* Repository.updating
    mu,        \* Repository.mu: the caller holding it, or NoCaller
    dirs,      \* the directories that exist
    pc,        \* where each goroutine is
    target,    \* the Repository a caller's update call is on, 0: no call
    err,       \* what runUpdate returned to the caller ("none": nothing yet)
    ops,       \* the I/O the caller's update call has done
    overlap,   \* the calls on the same Repository that had passed their check of
               \* the flag and not yet cleared it when this call checked the flag
    endpoint,  \* Endpoint.RepositoryName of the request being served
    req,       \* the request being served
    status,    \* resp["status_code"], 0: not set
    auth,      \* outcome of the webhook inspection of the request being served
    provIdx,   \* position of NewManager's loop over cfg.Repositories
    calls,     \* the calls of Repository.update a goroutine has made in its
               \* current turn (request, tick, turn of NewManager's loop)
    written,   \* the status respondHTTP passed to w.WriteHeader, 0: none yet
    repoMap,   \* cfg.repoMap: name -> position in cfg.Repositories
    added,     \* the last call of Config.AddRepository: its argument and result
    authOut,   \* the last call of configureAuthOptions: what it returned
    parsed     \* the last call of a Caddyfile parser: its input and what it returned

vars == <<cfg, manager, repos, updating, mu, dirs, pc, target, err, ops,
          overlap, endpoint, req, status, auth, provIdx, calls, written,
          repoMap, added, authOut, parsed>>

Prov == <<"prov", 0>>
Sched(i) == <<"sched", i>>
Http(k) == <<"http", k>>
NoCaller == <<"none", 0>>

Callers == DOMAIN pc
Handlers == {c \in Callers : c[1] = "http"}
Scheds == {c \in Callers : c[1] = "sched"}
RepoIdx == 1..Len(cfg)

CallersOf(n, h) == {Prov} \cup {Sched(i) : i \in 1..n} \cup {Http(k) : k \in 1..h}

\* inside Repository.update
UpdatePcs == {"check", "lock", "set", "run", "post", "clear", "unlock"}
\* inside the section update guards with mu
GuardedPcs == {"set", "run", "post", "clear", "unlock"}
InFlight(c) == pc[c] \in UpdatePcs
\* between a call's check of the flag and its clearing of the flag
SyncPcs == {"lock", "set", "run", "post", "clear"}

NoHeaders == [h \in {SigHeader, TokenHeader} |-> <<>>]
NoReq == [method |-> "", headers |-> NoHeaders, body |-> <<>>]

(***************************************************************************)
(* Repository.update, one action per step another goroutine can observe.   *)
(***************************************************************************)
\* a caller enters update on Repository i
EnterUpdate(c, i) ==
    /\ pc' = [pc EXCEPT ![c] = "check"]
    /\ target' = [target EXCEPT ![c] = i]
    /\ err' = [err EXCEPT ![c] = "none"]
    /\ ops' = [ops EXCEPT ![c] = <<>>]
    /\ overlap' = [overlap EXCEPT ![c] = {}]
    /\ calls' = [calls EXCEPT ![c] = @ + 1]

\* the caller is done with the result of its update call
LeaveUpdate(c) ==
    /\ target' = [target EXCEPT ![c] = 0]
    /\ err' = [err EXCEPT ![c] = "none"]
    /\ ops' = [ops EXCEPT ![c] = <<>>]
    /\ overlap' = [d \in Callers |-> IF d = c THEN {} ELSE overlap[d] \ {c}]
    /\ calls' = [calls EXCEPT ![c] = 0]

\* `if r.updating` is read without holding mu: the read races with the writes
\* of the caller inside the guarded section, once that caller has written, and
\* then yields either value; otherwise it yields the value in memory
RacyRead(i, c) ==
    IF \E d \in Callers \ {c} :
          target[d] = i /\ pc[d] \in {"run", "post", "clear", "unlock"}
    THEN BOOLEAN
    ELSE {updating[i]}

\* the calls on Repository i that are syncing or bound to sync
Syncing(i, c) == {d \in Callers \ {c} : target[d] = i /\ pc[d] \in SyncPcs}

\* if r.updating { return nil }
UpdateCheck(c) ==
    /\ pc[c] = "check"
    /\ \E seen \in RacyRead(target[c], c) :
          IF seen
          THEN /\ pc' = [pc EXCEPT ![c] = "ret"]
               /\ err' = [err EXCEPT ![c] = "nil"]
          ELSE /\ pc' = [pc EXCEPT ![c] = "lock"]
               /\ err' = err
    /\ overlap' = [overlap EXCEPT ![c] = Syncing(target[c], c)]
    /\ UNCHANGED <<cfg, repoMap, added, authOut, parsed, manager, repos, updating, mu, dirs,
                   target, calls, ops, endpoint, req, status, written, auth,
                   provIdx>>

\* a lock that never blocks
MutexFree_Ignored(i) == TRUE

\* one lock shared by all repositories
MutexFree_Global(i) == \A j \in DOMAIN mu : mu[j] = NoCaller

\* r.mu.Lock()
MutexFree(i) == mu[i] = NoCaller

UpdateLock(c) ==
    /\ pc[c] = "lock"
    /\ MutexFree(target[c])
    /\ mu' = [mu EXCEPT ![target[c]] = c]
    /\ pc' = [pc EXCEPT ![c] = "set"]
    /\ UNCHANGED <<cfg, repoMap, added, authOut, parsed, manager, repos, updating, dirs,
                   target, calls, err, ops, overlap, endpoint, req, status,
                   written, auth, provIdx>>

\* r.updating = true
UpdateSetFlag(c) ==
    /\ pc[c] = "set"
    /\ updating' = [updating EXCEPT ![target[c]] = TRUE]
    /\ pc' = [pc EXCEPT ![c] = "run"]
    /\ UNCHANGED <<cfg, repoMap, added, authOut, parsed, manager, repos, mu, dirs, target,
                   calls, err, ops, overlap, endpoint, req, status, written,
                   auth, provIdx>>

\* update clearing the flag at its end instead of in a deferred function:
\* the error return skips it
AfterRun_NoDefer(e, rc) ==
    IF e # "nil" THEN "unlock"
    ELSE IF Len(rc.PostPullExec) > 0 THEN "post"
    ELSE "clear"

\* update running the post-pull commands whatever runUpdate returned
AfterRun_PostAlways(e, rc) ==
    IF Len(rc.PostPullExec) > 0 THEN "post" ELSE "clear"

\* where update goes after runUpdate returned e
AfterRun(e, rc) ==
    IF e # "nil" THEN "clear"
    ELSE IF Len(rc.PostPullExec) > 0 THEN "post"
    ELSE "clear"

\* err := r.runUpdate()
UpdateRun(c, F, P) ==
    /\ pc[c] = "run"
    /\ \E out \in {runUpdate(cfg[target[c]], dirs, fault, pull) :
                        fault \in F, pull \in P} :
          /\ cfg' = [cfg EXCEPT ![target[c]] = out.rc]
          /\ dirs' = out.dirs
          /\ ops' = [ops EXCEPT ![c] = out.ops]
          /\ err' = [err EXCEPT ![c] = out.err]
          /\ pc' = [pc EXCEPT ![c] = AfterRun(out.err, out.rc)]
    /\ UNCHANGED <<repoMap, added, authOut, parsed>>
    /\ UNCHANGED <<manager, repos, updating, mu, target, calls, overlap,
                   endpoint, req, status, written, auth, provIdx>>

\* r.runPostPullExec()
UpdatePost(c, X) ==
    /\ pc[c] = "post"
    /\ \E oks \in [1..Len(cfg[target[c]].PostPullExec) -> X] :
          ops' = [ops EXCEPT
                    ![c] = @ \o runPostPullExec(cfg[target[c]].PostPullExec, oks)]
    /\ pc' = [pc EXCEPT ![c] = "clear"]
    /\ UNCHANGED <<cfg, repoMap, added, authOut, parsed, manager, repos, updating, mu, dirs,
                   target, calls, err, overlap, endpoint, req, status,
                   written, auth, provIdx>>

\* a deferred function that leaves the flag set
ClearedFlag_Stays == TRUE

\* the value the deferred function leaves in r.updating
ClearedFlag == FALSE

\* deferred: r.updating = false
UpdateClearFlag(c) ==
    /\ pc[c] = "clear"
    /\ updating' = [updating EXCEPT ![target[c]] = ClearedFlag]
    /\ pc' = [pc EXCEPT ![c] = "unlock"]
    /\ UNCHANGED <<cfg, repoMap, added, authOut, parsed, manager, repos, mu, dirs, target,
                   calls, err, ops, overlap, endpoint, req, status, written,
                   auth, provIdx>>

\* a return that leaves the lock with the caller
Unlocked_Held(c) == c

\* the holder of r.mu once the caller c has run r.mu.Unlock()
Unlocked(c) == NoCaller

\* deferred: r.mu.Unlock(), and update returns
UpdateUnlock(c) ==
    /\ pc[c] = "unlock"
    /\ mu' = [mu EXCEPT ![target[c]] = Unlocked(c)]
    /\ pc' = [pc EXCEPT ![c] = "ret"]
    /\ UNCHANGED <<cfg, repoMap, added, authOut, parsed, manager, repos, updating, dirs,
                   target, calls, err, ops, overlap, endpoint, req, status,
                   written, auth, provIdx>>


(***************************************************************************)
(* NewManager: the provisioning loop.                                      *)
(***************************************************************************)
\* m := &Manager{...}; manager = m
NewManagerStart ==
    /\ pc[Prov] = "start"
    /\ manager' = "set"
    /\ provIdx' = 1
    /\ pc' = [pc EXCEPT ![Prov] = "next"]
    /\ UNCHANGED <<cfg, repoMap, added, authOut, parsed, repos, updating, mu, dirs, target,
                   calls, err, ops, overlap, endpoint, req, status, written,
                   auth>>

\* one turn of the loop up to the call of r.update(), or the return of m
NewManagerNext ==
    /\ pc[Prov] = "next"
    /\ IF provIdx > Len(cfg)
       THEN /\ pc' = [pc EXCEPT ![Prov] = "done"]
            /\ UNCHANGED <<cfg, repoMap, added, authOut, parsed, repos, target, calls, err,
                           ops, overlap>>
       ELSE IF validate(cfg[provIdx]) # "nil"
       THEN /\ pc' = [pc EXCEPT ![Prov] = "failed"]
            /\ err' = [err EXCEPT ![Prov] = validate(cfg[provIdx])]
            /\ UNCHANGED <<cfg, repoMap, added, authOut, parsed, repos, target, calls, ops,
                           overlap>>
       ELSE /\ cfg' = [cfg EXCEPT ![provIdx].transport = transportOf(cfg[provIdx])]
            /\ repos' = [repos EXCEPT ![cfg[provIdx].Name] = provIdx]
            /\ EnterUpdate(Prov, provIdx)
            /\ UNCHANGED <<repoMap, added, authOut, parsed>>
    /\ UNCHANGED <<manager, updating, mu, dirs, endpoint, req, status,
                   written, auth, provIdx>>

\* NewManager starting autoUpdater for every synced repository
StartsUpdater_Always(rc) == TRUE

\* whether NewManager starts autoUpdater for a synced repository
StartsUpdater(rc) == rc.UpdateInterval > 0

\* a loop that goes on to the next repository whatever r.update() returned
AfterSync_GoOn(e) == "next"

\* where NewManager goes when r.update() returned e
AfterSync(e) == IF e # "nil" THEN "failed" ELSE "next"

\* r.update() returned: fail, or start the auto-updater and go on
NewManagerSynced ==
    /\ pc[Prov] = "ret"
    /\ IF AfterSync(err[Prov]) = "failed"
       THEN /\ pc' = [pc EXCEPT ![Prov] = "failed"]
            /\ UNCHANGED <<target, calls, err, ops, overlap, provIdx>>
       ELSE /\ pc' = [pc EXCEPT
                        ![Prov] = "next",
                        ![Sched(provIdx)] =
                            IF StartsUpdater(cfg[provIdx]) THEN "wait" ELSE @]
            /\ provIdx' = provIdx + 1
            /\ LeaveUpdate(Prov)
    /\ UNCHANGED <<cfg, repoMap, added, authOut, parsed, manager, repos, updating, mu, dirs,
                   endpoint, req, status, written, auth>>

(***************************************************************************)
(* autoUpdater: one goroutine per repository with an update interval.      *)
(***************************************************************************)
\* the ticker fires and the loop calls r.update()
Tick(c) ==
    /\ pc[c] = "wait"
    /\ EnterUpdate(c, c[2])
    /\ UNCHANGED <<cfg, repoMap, added, authOut, parsed, manager, repos, updating, mu, dirs,
                   endpoint, req, status, written, auth, provIdx>>

\* a loop that ends at the first tick whose update fails
AfterTick_StopOnError(e) == IF e # "nil" THEN "off" ELSE "wait"

\* where autoUpdater goes when r.update() returned e: the error is logged and
\* the loop continues with the next tick
AfterTick(e) == "wait"

\* r.update() returned: the result is logged and the loop waits again
TickDone(c) ==
    /\ pc[c] = "ret"
    /\ pc' = [pc EXCEPT ![c] = AfterTick(err[c])]
    /\ LeaveUpdate(c)
    /\ UNCHANGED <<cfg, repoMap, added, authOut, parsed, manager, repos, updating, mu, dirs,
                   endpoint, req, status, written, auth, provIdx>>

(***************************************************************************)
(* Endpoint.ServeHTTP. The host hands requests to the endpoint once the    *)
(* manager exists.                                                         *)
(***************************************************************************)
\* respondHTTP writing 200 whatever the payload says
respondHTTP_Always200(code) == StatusOK

\* respondHTTP: the status passed to w.WriteHeader for the payload's
\* status_code, code = 0 standing for a payload without that key
respondHTTP(code) ==
    IF code # 0 THEN code ELSE StatusInternalServerError

\* a request for the endpoint named name arrives: lookup and webhook check
ServeHTTP(c, Names, Reqs) ==
    /\ pc[c] = "idle"
    /\ manager = "set"
    /\ \E name \in Names, rq \in Reqs :
          LET idx  == repos[name]
              gate == ServeHTTPGate(idx,
                          IF idx = 0 THEN <<>> ELSE cfg[idx].Webhooks, rq)
          IN
          /\ endpoint' = [endpoint EXCEPT ![c] = name]
          /\ req' = [req EXCEPT ![c] = rq]
          /\ auth' = [auth EXCEPT ![c] = gate.auth]
          /\ status' = [status EXCEPT ![c] = gate.status]
          /\ IF gate.status # 0
             THEN /\ pc' = [pc EXCEPT ![c] = "done"]
                  /\ written' = [written EXCEPT ![c] = respondHTTP(gate.status)]
                  /\ UNCHANGED <<target, calls, err, ops, overlap>>
             ELSE /\ EnterUpdate(c, idx)
                  /\ UNCHANGED written
    /\ UNCHANGED <<cfg, repoMap, added, authOut, parsed, manager, repos, updating, mu, dirs,
                   provIdx>>

\* a handler answering 200 whatever repo.update() returned
UpdateStatus_AlwaysOK(e) == StatusOK

\* repo.update() returned: the status of the response
UpdateStatus(e) == IF e # "nil" THEN StatusInternalServerError ELSE StatusOK

ServeHTTPRespond(c) ==
    /\ pc[c] = "ret"
    /\ status' = [status EXCEPT ![c] = UpdateStatus(err[c])]
    /\ written' = [written EXCEPT ![c] = respondHTTP(UpdateStatus(err[c]))]
    /\ pc' = [pc EXCEPT ![c] = "done"]
    /\ UNCHANGED <<cfg, repoMap, added, authOut, parsed, manager, repos, updating, mu, dirs,
                   target, calls, err, ops, overlap, endpoint, req, auth,
                   provIdx>>

\* respondHTTP has written the response and the handler returns
ServeHTTPReturn(c) ==
    /\ pc[c] = "done"
    /\ pc' = [pc EXCEPT ![c] = "idle"]
    /\ endpoint' = [endpoint EXCEPT ![c] = ""]
    /\ req' = [req EXCEPT ![c] = NoReq]
    /\ status' = [status EXCEPT ![c] = 0]
    /\ written' = [written EXCEPT ![c] = 0]
    /\ auth' = [auth EXCEPT ![c] = NoAuthRecord]
    /\ LeaveUpdate(c)
    /\ UNCHANGED <<cfg, repoMap, added, authOut, parsed, manager, repos, updating, mu, dirs,
                   provIdx>>

(***************************************************************************)
(* Inputs.                                                                 *)
(***************************************************************************)
Request(m, sig, tok, b) ==
    [method |-> m, headers |-> [h \in {SigHeader, TokenHeader} |->
                                   IF h = SigHeader THEN sig ELSE tok],
     body |-> b]

\* the request of the concurrency specification
ConcRequests == {Request("GET", <<>>, <<>>, <<>>)}

ValidSig(s, b) == Sha256Prefix \o <<"=">> \o HmacSha256Hex(s, b)

SigValues ==
    {<<>>}
    \cup {ValidSig(s, b) : s \in Secrets, b \in Bodies}
    \cup {<<"s","h","a","1","=">> \o HmacSha256Hex(Secret1, Body1),
          Sha256Prefix \o HmacSha256Hex(Secret1, Body1),
          Sha256Prefix \o <<"=", " ">> \o HmacSha256Hex(Secret1, Body1) \o <<" ">>,
          Sha256Prefix \o <<"=">>,
          Sha256Prefix \o <<"=">> \o SubSeq(HmacSha256Hex(Secret1, Body1), 2, SigHexLen),
          Secret1}

TokenValues == {<<>>, Secret1, Secret2, Secret1 \o <<" ">>}

HookRequests ==
    {Request(m, sig, tok, b) :
        m \in {"GET", "POST"}, sig \in SigValues, tok \in TokenValues, b \in Bodies}

WebhookChoices ==
    {[Name |-> "Github", Header |-> SigHeader, Secret |-> Secret1],
     [Name |-> "Github", Header |-> ToUpper(SigHeader), Secret |-> Secret1],
     [Name |-> "Github", Header |-> SigHeaderLower, Secret |-> Secret1],
     [Name |-> "Hook", Header |-> TokenHeader, Secret |-> Secret1],
     [Name |-> "Hook", Header |-> TokenHeader, Secret |-> <<>>]}

WebhookLists ==
    UNION {[1..n -> WebhookChoices] : n \in 0..MaxWebhooks}

ConcConfigs == {<<SiteConfig>>}
\* the endpoints of the concurrency specification: the repository is found
\* once NewManager has registered it
ConcNames == {"site"}

HookConfigs ==
    {<<[DocsConfig EXCEPT !.Webhooks = ws, !.transport = transportOf(DocsConfig)]>> :
        ws \in WebhookLists}

\* the keys manager.repos may get: the names an endpoint may have and the
\* empty name
RegistryNames == AllNames \cup {""}

\* the repository configurations a Config handed to NewManager may list.
\* Config.Repositories is an exported field filled from the host's JSON
\* configuration as well as by AddRepository, so next to the two well-formed
\* configurations a list may repeat a name, hold an empty name or hold an
\* address validate rejects.
ProvChoices ==
    {SiteConfig, DocsConfig,
     [DocsConfig EXCEPT !.Name = "site"],
     [DocsConfig EXCEPT !.Name = ""],
     [DocsConfig EXCEPT !.Address = <<"https://", "example.org/docs">>]}

ProvConfigs == UNION {[1..n -> ProvChoices] : n \in 1..MaxRepos}

\* the steps that may fail while NewManager and the auto-updaters sync: every
\* one but the lookup of the home directory, which resolves for this process
ProvFaults == Faults \ {"home"}

\* the directory trees provisioning may start from: the working copy of docs
\* is already there, or not
ProvDirs == {{<<"/srv">>}, {<<"/srv">>, <<"/srv", "docs">>}}

(***************************************************************************)
(* Spec: provisioning, auto-updaters and concurrent trigger requests.      *)
(***************************************************************************)
Init ==
    /\ cfg \in ConcConfigs
    /\ manager = "nil"
    /\ repos = [n \in AllNames |-> 0]
    /\ updating = [i \in 1..Len(cfg) |-> FALSE]
    /\ mu = [i \in 1..Len(cfg) |-> NoCaller]
    /\ dirs = {<<"/srv">>}
    /\ pc = [c \in CallersOf(Len(cfg), NumHandlers) |->
                IF c = Prov THEN "start" ELSE IF c[1] = "sched" THEN "off" ELSE "idle"]
    /\ target = [c \in CallersOf(Len(cfg), NumHandlers) |-> 0]
    /\ err = [c \in CallersOf(Len(cfg), NumHandlers) |-> "none"]
    /\ ops = [c \in CallersOf(Len(cfg), NumHandlers) |-> <<>>]
    /\ overlap = [c \in CallersOf(Len(cfg), NumHandlers) |-> {}]
    /\ endpoint = [c \in CallersOf(Len(cfg), NumHandlers) |-> ""]
    /\ req = [c \in {Http(k) : k \in 1..NumHandlers} |-> NoReq]
    /\ status = [c \in CallersOf(Len(cfg), NumHandlers) |-> 0]
    /\ auth = [c \in CallersOf(Len(cfg), NumHandlers) |-> NoAuthRecord]
    /\ provIdx = 0
    /\ calls = [c \in CallersOf(Len(cfg), NumHandlers) |-> 0]
    /\ written = [c \in CallersOf(Len(cfg), NumHandlers) |-> 0]
    /\ repoMap = NoRepoMap
    /\ added = NoAdd
    /\ authOut = NoAuthOut
    /\ parsed = NoParse

Update(c, F, P, X) ==
    \/ UpdateCheck(c)
    \/ UpdateLock(c)
    \/ UpdateSetFlag(c)
    \/ UpdateRun(c, F, P)
    \/ UpdatePost(c, X)
    \/ UpdateClearFlag(c)
    \/ UpdateUnlock(c)

Next ==
    \/ NewManagerStart
    \/ NewManagerNext
    \/ NewManagerSynced
    \/ \E c \in Callers : Update(c, ConcFaults, ConcPulls, ConcExecs)
    \/ \E c \in Scheds : Tick(c) \/ TickDone(c)
    \/ \E c \in Handlers :
          \/ ServeHTTP(c, ConcNames, ConcRequests)
          \/ ServeHTTPRespond(c)
          \/ ServeHTTPReturn(c)

Spec == Init /\ [][Next]_vars

(***************************************************************************)
(* SpecLive: the scheduler and the trigger requests of a provisioned       *)
(* manager, with the scheduling the runtime gives the steps of             *)
(* update. A goroutine that can take a step takes it (the clone, the pull   *)
(* and the commands terminate), and a goroutine waiting in r.mu.Lock() gets *)
(* the lock if it is released again and again (sync.Mutex hands the lock to *)
(* a starving waiter). A sync succeeds or its pull fails.                   *)
(***************************************************************************)
LiveFaults == {"none", "pull"}

UpdateStep(c) ==
    /\ pc[c] \in UpdatePcs \ {"lock"}
    /\ \/ UpdateCheck(c)
       \/ UpdateSetFlag(c)
       \/ UpdateRun(c, LiveFaults, ConcPulls)
       \/ UpdatePost(c, ConcExecs)
       \/ UpdateClearFlag(c)
       \/ UpdateUnlock(c)

\* the manager is provisioned, the scheduler of site runs and its working
\* copy is not there yet: the first sync clones, the later ones pull
InitLive ==
    /\ cfg = <<[SiteConfig EXCEPT !.transport = transportOf(SiteConfig)]>>
    /\ manager = "set"
    /\ repos = [n \in AllNames |-> IF n = "site" THEN 1 ELSE 0]
    /\ updating = [i \in 1..1 |-> FALSE]
    /\ mu = [i \in 1..1 |-> NoCaller]
    /\ dirs = {<<HomeDir, "www">>}
    /\ pc = [c \in CallersOf(1, NumHandlers) |->
                IF c = Prov THEN "done" ELSE IF c[1] = "sched" THEN "wait" ELSE "idle"]
    /\ target = [c \in CallersOf(1, NumHandlers) |-> 0]
    /\ err = [c \in CallersOf(1, NumHandlers) |-> "none"]
    /\ ops = [c \in CallersOf(1, NumHandlers) |-> <<>>]
    /\ overlap = [c \in CallersOf(1, NumHandlers) |-> {}]
    /\ endpoint = [c \in CallersOf(1, NumHandlers) |-> ""]
    /\ req = [c \in {Http(k) : k \in 1..NumHandlers} |-> NoReq]
    /\ status = [c \in CallersOf(1, NumHandlers) |-> 0]
    /\ auth = [c \in CallersOf(1, NumHandlers) |-> NoAuthRecord]
    /\ provIdx = 2
    /\ calls = [c \in CallersOf(1, NumHandlers) |-> 0]
    /\ written = [c \in CallersOf(1, NumHandlers) |-> 0]
    /\ repoMap = NoRepoMap
    /\ added = NoAdd
    /\ authOut = NoAuthOut
    /\ parsed = NoParse

NextLive ==
    \/ \E c \in Callers : UpdateStep(c) \/ UpdateLock(c)
    \/ \E c \in Scheds : Tick(c) \/ TickDone(c)
    \/ \E c \in Handlers :
          \/ ServeHTTP(c, ConcNames, ConcRequests)
          \/ ServeHTTPRespond(c)
          \/ ServeHTTPReturn(c)

\* the goroutines of a provisioned manager: its scheduler and the requests
LiveCallers == CallersOf(1, NumHandlers) \ {Prov}

\* a caller at a step that never blocks takes it; a caller waiting in Lock
\* gets the lock if it is free again and again
Fairness ==
    \A c \in LiveCallers :
        WF_vars(UpdateStep(c)) /\ SF_vars(UpdateLock(c))

SpecLive == InitLive /\ [][NextLive]_vars /\ Fairness

(***************************************************************************)
(* SpecHook: one endpoint of a provisioned manager serving every request   *)
(* of HookRequests, for every webhook configuration of HookConfigs.        *)
(***************************************************************************)
InitHook ==
    /\ cfg \in HookConfigs
    /\ manager = "set"
    /\ repos = [n \in AllNames |-> IF n = "docs" THEN 1 ELSE 0]
    /\ updating = [i \in 1..1 |-> FALSE]
    /\ mu = [i \in 1..1 |-> NoCaller]
    /\ dirs = {<<"/srv">>, <<"/srv", "docs">>}
    /\ pc = [c \in CallersOf(1, 1) |->
                IF c = Prov THEN "done" ELSE IF c[1] = "sched" THEN "off" ELSE "idle"]
    /\ target = [c \in CallersOf(1, 1) |-> 0]
    /\ err = [c \in CallersOf(1, 1) |-> "none"]
    /\ ops = [c \in CallersOf(1, 1) |-> <<>>]
    /\ overlap = [c \in CallersOf(1, 1) |-> {}]
    /\ endpoint = [c \in CallersOf(1, 1) |-> ""]
    /\ req = [c \in {Http(k) : k \in 1..1} |-> NoReq]
    /\ status = [c \in CallersOf(1, 1) |-> 0]
    /\ auth = [c \in CallersOf(1, 1) |-> NoAuthRecord]
    /\ provIdx = 2
    /\ calls = [c \in CallersOf(1, 1) |-> 0]
    /\ written = [c \in CallersOf(1, 1) |-> 0]
    /\ repoMap = NoRepoMap
    /\ added = NoAdd
    /\ authOut = NoAuthOut
    /\ parsed = NoParse

NextHook ==
    \E c \in Handlers :
        \/ ServeHTTP(c, AllNames, HookRequests)
        \/ Update(c, Faults, PullResults, BOOLEAN)
        \/ ServeHTTPRespond(c)
        \/ ServeHTTPReturn(c)

SpecHook == InitHook /\ [][NextHook]_vars

(***************************************************************************)
(* SpecReg: the configuration parser filling a Config made by NewConfig    *)
(* with calls of AddRepository, before anything is provisioned.            *)
(***************************************************************************)
\* names and addresses as a configuration file may give them
RegNames ==
    {<<"s","i","t","e">>, <<" ","s","i","t","e"," ">>, <<"d","o","c","s">>,
     <<>>, <<" ">>}

RegAddresses ==
    {<<"https://", "example.org/docs", ".git">>,
     <<"git@", "example.org:site", ".git">>,
     <<"ftp://", "example.org/site", ".git">>,
     <<"https://", "example.org/docs">>,
     <<>>}

RegInputs ==
    {[isNil |-> FALSE, rc |-> [SiteConfig EXCEPT !.Name = n, !.Address = a]] :
        n \in RegNames, a \in RegAddresses}
    \cup {[isNil |-> TRUE, rc |-> SiteConfig]}

\* cfg.AddRepository(rc)
AddRepository(p) ==
    /\ pc[Prov] = "config"
    /\ LET out == AddResult(cfg, repoMap, p) IN
          /\ cfg' = out.Repositories
          /\ repoMap' = out.repoMap
          /\ added' = [arg |-> p, err |-> out.err]
    /\ UNCHANGED <<manager, repos, updating, mu, dirs, pc, target, err, ops,
                   overlap, endpoint, req, status, auth, provIdx, calls,
                   written, authOut, parsed>>

InitReg ==
    /\ cfg = <<>>
    /\ repoMap = NoRepoMap
    /\ added = NoAdd
    /\ authOut = NoAuthOut
    /\ parsed = NoParse
    /\ manager = "nil"
    /\ repos = [n \in RegistryNames |-> 0]
    /\ updating = <<>>
    /\ mu = <<>>
    /\ dirs = {<<"/srv">>}
    /\ pc = [c \in CallersOf(0, 0) |-> "config"]
    /\ target = [c \in CallersOf(0, 0) |-> 0]
    /\ err = [c \in CallersOf(0, 0) |-> "none"]
    /\ ops = [c \in CallersOf(0, 0) |-> <<>>]
    /\ overlap = [c \in CallersOf(0, 0) |-> {}]
    /\ endpoint = [c \in CallersOf(0, 0) |-> ""]
    /\ req = [c \in {Http(k) : k \in 1..0} |-> NoReq]
    /\ status = [c \in CallersOf(0, 0) |-> 0]
    /\ auth = [c \in CallersOf(0, 0) |-> NoAuthRecord]
    /\ provIdx = 0
    /\ calls = [c \in CallersOf(0, 0) |-> 0]
    /\ written = [c \in CallersOf(0, 0) |-> 0]

NextReg == \E p \in RegInputs : AddRepository(p)

SpecReg == InitReg /\ [][NextReg]_vars

(***************************************************************************)
(* SpecProv: NewManager provisioning every list of ProvConfigs, and the    *)
(* auto-updaters it starts, the steps of ProvFaults being able to fail.    *)
(***************************************************************************)
InitProv ==
    /\ cfg \in ProvConfigs
    /\ manager = "nil"
    /\ repos = [n \in RegistryNames |-> 0]
    /\ updating = [i \in 1..Len(cfg) |-> FALSE]
    /\ mu = [i \in 1..Len(cfg) |-> NoCaller]
    /\ dirs \in ProvDirs
    /\ pc = [c \in CallersOf(Len(cfg), 0) |->
                IF c = Prov THEN "start" ELSE "off"]
    /\ target = [c \in CallersOf(Len(cfg), 0) |-> 0]
    /\ err = [c \in CallersOf(Len(cfg), 0) |-> "none"]
    /\ ops = [c \in CallersOf(Len(cfg), 0) |-> <<>>]
    /\ overlap = [c \in CallersOf(Len(cfg), 0) |-> {}]
    /\ endpoint = [c \in CallersOf(Len(cfg), 0) |-> ""]
    /\ req = [c \in {Http(k) : k \in 1..0} |-> NoReq]
    /\ status = [c \in CallersOf(Len(cfg), 0) |-> 0]
    /\ auth = [c \in CallersOf(Len(cfg), 0) |-> NoAuthRecord]
    /\ provIdx = 0
    /\ calls = [c \in CallersOf(Len(cfg), 0) |-> 0]
    /\ written = [c \in CallersOf(Len(cfg), 0) |-> 0]
    /\ repoMap = NoRepoMap
    /\ added = NoAdd
    /\ authOut = NoAuthOut
    /\ parsed = NoParse

NextProv ==
    \/ NewManagerStart
    \/ NewManagerNext
    \/ NewManagerSynced
    \/ \E c \in Callers : Update(c, ProvFaults, PullResults, BOOLEAN)
    \/ \E c \in Scheds : Tick(c) \/ TickDone(c)

SpecProv == InitProv /\ [][NextProv]_vars

(***************************************************************************)
(* SpecPar: a provisioned manager of two repositories, both with an        *)
(* auto-updater, and trigger requests for either of them.                  *)
(***************************************************************************)
\* docs with an update interval and no webhook, next to site
ParConfigs ==
    {<<[SiteConfig EXCEPT !.transport = transportOf(SiteConfig)],
       [DocsConfig EXCEPT !.UpdateInterval = 30, !.Webhooks = <<>>,
                          !.transport = transportOf(DocsConfig)]>>}
ParNames == {"site", "docs"}
\* both working copies are there: a sync opens and pulls, and the pull may fail
ParFaults == {"none", "pull"}

InitPar ==
    /\ cfg \in ParConfigs
    /\ manager = "set"
    /\ repos = [n \in AllNames |->
                  IF n = "site" THEN 1 ELSE IF n = "docs" THEN 2 ELSE 0]
    /\ updating = [i \in 1..2 |-> FALSE]
    /\ mu = [i \in 1..2 |-> NoCaller]
    /\ dirs = {<<HomeDir, "www">>, <<HomeDir, "www", "site">>,
               <<"/srv">>, <<"/srv", "docs">>}
    /\ pc = [c \in CallersOf(2, NumHandlers) |->
                IF c = Prov THEN "done" ELSE IF c[1] = "sched" THEN "wait" ELSE "idle"]
    /\ target = [c \in CallersOf(2, NumHandlers) |-> 0]
    /\ err = [c \in CallersOf(2, NumHandlers) |-> "none"]
    /\ ops = [c \in CallersOf(2, NumHandlers) |-> <<>>]
    /\ overlap = [c \in CallersOf(2, NumHandlers) |-> {}]
    /\ endpoint = [c \in CallersOf(2, NumHandlers) |-> ""]
    /\ req = [c \in {Http(k) : k \in 1..NumHandlers} |-> NoReq]
    /\ status = [c \in CallersOf(2, NumHandlers) |-> 0]
    /\ auth = [c \in CallersOf(2, NumHandlers) |-> NoAuthRecord]
    /\ provIdx = 3
    /\ calls = [c \in CallersOf(2, NumHandlers) |-> 0]
    /\ written = [c \in CallersOf(2, NumHandlers) |-> 0]
    /\ repoMap = NoRepoMap
    /\ added = NoAdd
    /\ authOut = NoAuthOut
    /\ parsed = NoParse

NextPar ==
    \/ \E c \in Callers : Update(c, ParFaults, ConcPulls, ConcExecs)
    \/ \E c \in Scheds : Tick(c) \/ TickDone(c)
    \/ \E c \in Handlers :
          \/ ServeHTTP(c, ParNames, ConcRequests)
          \/ ServeHTTPRespond(c)
          \/ ServeHTTPReturn(c)

SpecPar == InitPar /\ [][NextPar]_vars

(***************************************************************************)
(* SpecExec: the scheduler of one provisioned repository syncing it, for   *)
(* every list of post-pull commands of ExecConfigs; every step of the sync *)
(* and every command may fail.                                             *)
(***************************************************************************)
ExecChoices == {Pager, Build, NoCommand}
ExecLists == UNION {[1..n -> ExecChoices] : n \in 0..MaxExecs}
ExecConfigs ==
    {<<[SiteConfig EXCEPT !.PostPullExec = xs,
                          !.transport = transportOf(SiteConfig)]>> :
        xs \in ExecLists}
\* the working copy is there already, or not
ExecDirs == {{<<HomeDir, "www">>},
             {<<HomeDir, "www">>, <<HomeDir, "www", "site">>}}

InitExec ==
    /\ cfg \in ExecConfigs
    /\ manager = "set"
    /\ repos = [n \in AllNames |-> IF n = "site" THEN 1 ELSE 0]
    /\ updating = [i \in 1..1 |-> FALSE]
    /\ mu = [i \in 1..1 |-> NoCaller]
    /\ dirs \in ExecDirs
    /\ pc = [c \in CallersOf(1, 0) |-> IF c = Prov THEN "done" ELSE "wait"]
    /\ target = [c \in CallersOf(1, 0) |-> 0]
    /\ err = [c \in CallersOf(1, 0) |-> "none"]
    /\ ops = [c \in CallersOf(1, 0) |-> <<>>]
    /\ overlap = [c \in CallersOf(1, 0) |-> {}]
    /\ endpoint = [c \in CallersOf(1, 0) |-> ""]
    /\ req = [c \in {Http(k) : k \in 1..0} |-> NoReq]
    /\ status = [c \in CallersOf(1, 0) |-> 0]
    /\ auth = [c \in CallersOf(1, 0) |-> NoAuthRecord]
    /\ provIdx = 2
    /\ calls = [c \in CallersOf(1, 0) |-> 0]
    /\ written = [c \in CallersOf(1, 0) |-> 0]
    /\ repoMap = NoRepoMap
    /\ added = NoAdd
    /\ authOut = NoAuthOut
    /\ parsed = NoParse

NextExec ==
    \/ \E c \in Scheds : Update(c, KeyFaults, PullResults, BOOLEAN)
    \/ \E c \in Scheds : Tick(c) \/ TickDone(c)

SpecExec == InitExec /\ [][NextExec]_vars

(***************************************************************************)
(* SpecAuth: configureAuthOptions applied to every repository              *)
(* configuration of AuthInputs, the key file loading or not.               *)
(***************************************************************************)
AuthUser == <<"b", "o", "t">>
AuthPassword == <<"p", "w">>
AuthPassphrase == <<"p", "p">>

\* no auth block, or one with every combination of its fields set and unset
AuthBlocks ==
    {NilAuth} \cup
    {[isNil |-> FALSE, Username |-> u, Password |-> p, KeyPath |-> k,
      KeyPassphrase |-> pp, StrictHostKeyCheckingDisabled |-> s] :
        u \in {<<>>, AuthUser}, p \in {<<>>, AuthPassword},
        k \in {<<>>, <<"~", ".ssh", "id_rsa">>},
        pp \in {<<>>, AuthPassphrase}, s \in BOOLEAN}

AuthAddresses ==
    {<<"git@", "example.org:site", ".git">>,
     <<"https://", "example.org/site", ".git">>,
     <<"ssh://", "example.org/site", ".git">>,
     <<"ssh://", "deploy@", "example.org/site", ".git">>,
     <<"@", "example.org:site", ".git">>,
     <<"example.org:", "site@", "git@", ".git">>}

\* the transport is the one validate derives from the address, or the zero
\* value of a configuration validate was not called on
AuthInputs ==
    {rc \in {[SiteConfig EXCEPT !.Address = a, !.Auth = b, !.transport = t] :
                a \in AuthAddresses, b \in AuthBlocks, t \in {"http", "ssh", ""}} :
        rc.transport \in {"", transportOf(rc)}}

\* configureAuthOptions(cfg): the key path is expanded in place
ConfigureAuth ==
    /\ pc[Prov] = "auth"
    /\ \E homeOK \in BOOLEAN, keyOK \in BOOLEAN :
          LET rc  == WithKeyPath(cfg[1], homeOK)
              out == configureAuthOptions(rc, keyOK)
          IN  /\ cfg' = <<rc>>
              /\ authOut' = [called |-> TRUE, keyOK |-> keyOK,
                             method |-> out.method, err |-> out.err]
    /\ UNCHANGED <<manager, repos, updating, mu, dirs, pc, target, err, ops,
                   overlap, endpoint, req, status, auth, provIdx, calls,
                   written, repoMap, added, parsed>>

InitAuth ==
    /\ cfg \in {<<rc>> : rc \in AuthInputs}
    /\ manager = "nil"
    /\ repos = [n \in RegistryNames |-> 0]
    /\ updating = [i \in 1..1 |-> FALSE]
    /\ mu = [i \in 1..1 |-> NoCaller]
    /\ dirs = {<<"/srv">>}
    /\ pc = [c \in CallersOf(0, 0) |-> "auth"]
    /\ target = [c \in CallersOf(0, 0) |-> 0]
    /\ err = [c \in CallersOf(0, 0) |-> "none"]
    /\ ops = [c \in CallersOf(0, 0) |-> <<>>]
    /\ overlap = [c \in CallersOf(0, 0) |-> {}]
    /\ endpoint = [c \in CallersOf(0, 0) |-> ""]
    /\ req = [c \in {Http(k) : k \in 1..0} |-> NoReq]
    /\ status = [c \in CallersOf(0, 0) |-> 0]
    /\ auth = [c \in CallersOf(0, 0) |-> NoAuthRecord]
    /\ provIdx = 0
    /\ calls = [c \in CallersOf(0, 0) |-> 0]
    /\ written = [c \in CallersOf(0, 0) |-> 0]
    /\ repoMap = NoRepoMap
    /\ added = NoAdd
    /\ authOut = NoAuthOut
    /\ parsed = NoParse

NextAuth == ConfigureAuth

SpecAuth == InitAuth /\ [][NextAuth]_vars

(***************************************************************************)
(* SpecParse: parseCaddyfileAppConfig on every repo block of ParseBlocks   *)
(* and parseCaddyfileHandlerConfig on every directive of HandlerArgs.      *)
(***************************************************************************)
MaxEntries == 2

Entry(k, v) == [k |-> k, v |-> v, sub |-> <<>>]
PostEntry(v, sub) == [k |-> "post", v |-> v, sub |-> sub]
SubEntry(k, v) == [k |-> k, v |-> v]

KeyFile == <<"~", ".ssh", "id_rsa">>
GitUrl == <<"https://", "example.org/docs", ".git">>

\* entries of a repo block: well-formed ones, ones with too few or too many
\* arguments, ones with a keyword and no value after it, unsupported ones
EntryChoices ==
    {Entry("base_dir", << <<"/tmp">> >>),
     Entry("base_dir", << <<"{env.HOME}", "www">> >>),
     Entry("base_dir", <<>>),
     Entry("base_dir", << <<"/tmp">>, <<"/srv">> >>),
     Entry("url", <<GitUrl>>),
     Entry("url", << <<"https://", "example.org/docs">> >>),
     Entry("url", <<>>),
     Entry("branch", << <<"gh-pages">> >>),
     Entry("branch", << <<"{nope}">> >>),
     Entry("depth", << <<"1">> >>),
     Entry("depth", << <<"x">> >>),
     Entry("depth", << <<"1">>, <<"1">> >>),
     Entry("auth", << <<"key">>, KeyFile >>),
     Entry("auth", << <<"key">>, KeyFile, <<"passphrase">>, <<"p", "p">> >>),
     Entry("auth", << <<"key">>, KeyFile, <<"passphrase">> >>),
     Entry("auth", << <<"key">>, KeyFile, <<"no_strict_host_key_check">> >>),
     Entry("auth", << <<"key">> >>),
     Entry("auth", << <<"username">>, <<"bot">>, <<"password">>, <<"pw">> >>),
     Entry("auth", << <<"username">>, <<"bot">> >>),
     Entry("webhook", << <<"Hook">>, <<"X-Auth-Token">>, <<"s3">> >>),
     Entry("webhook", << <<"Hook">>, <<"X-Auth-Token">> >>),
     Entry("update", << <<"every">>, <<"60">> >>),
     Entry("update", << <<"every">> >>),
     Entry("update", << <<"each">>, <<"60">> >>),
     PostEntry(<< <<"pull">>, <<"exec">> >>,
               <<SubEntry("name", << <<"Pager">> >>),
                 SubEntry("command", << <<"/usr/local/bin/pager">> >>),
                 SubEntry("args", << <<"pulled">> >>)>>),
     PostEntry(<< <<"pull">>, <<"exec">> >>, <<SubEntry("name", <<>>)>>),
     PostEntry(<< <<"pull">>, <<"exec">> >>, <<SubEntry("command", <<>>)>>),
     PostEntry(<< <<"pull">>, <<"exec">> >>, <<SubEntry("args", <<>>)>>),
     PostEntry(<< <<"pull">>, <<"exec">> >>, <<SubEntry("env", << <<"A">> >>)>>),
     PostEntry(<< <<"push">>, <<"exec">> >>, <<>>),
     PostEntry(<< <<"pull">> >>, <<>>),
     Entry("bar", << <<"baz">> >>),
     Entry("bar", <<>>)}

\* a block with one well-formed entry of each of base_dir, url, branch, depth
FullBlocks ==
    {<<Entry("base_dir", <<b>>), Entry("url", <<GitUrl>>), Entry("branch", <<r>>),
       Entry("depth", <<d>>)>> :
        b \in {<<"/tmp">>, <<"{env.HOME}", "www">>},
        r \in {<<"gh-pages">>, <<"main">>}, d \in {<<"0">>, <<"1">>}}

ParseBlocks ==
    UNION {[1..n -> EntryChoices] : n \in 0..MaxEntries} \cup FullBlocks
ParseNames == {<<"s", "i", "t", "e">>, <<" ", "s", "i", "t", "e", " ">>, <<>>}

\* the arguments of a `git` handler directive; a quoted token holds several
\* words
HandlerArgs ==
    {<< <<"update">>, <<"repo">>, <<"site">> >>,
     << <<"/up">>, <<"update">>, <<"repo">>, <<"site">> >>,
     << <<"update">>, <<"repo">> >>,
     << <<"update">>, <<"repo">>, <<"site">>, <<"docs">> >>,
     << <<"/up">>, <<"/in">>, <<"update">>, <<"repo">>, <<"site">> >>,
     << <<"update", "repo", "site">> >>,
     << <<"update", "repo", "site">>, <<"update">> >>,
     << <<"/up">>, <<"update", "repo", "site">> >>,
     << <<"status">>, <<"repo">>, <<"site">> >>,
     <<>>}

ParseInputs ==
    {[NoParse EXCEPT !.fn = "app", !.name = n, !.block = b] :
        n \in ParseNames, b \in ParseBlocks}
    \cup {[NoParse EXCEPT !.fn = "handler", !.args = a] : a \in HandlerArgs}

\* the adapter calls parseCaddyfileAppConfig on the git block
ParseAppConfig ==
    /\ parsed.fn = "app" /\ ~parsed.done
    /\ LET out == parseCaddyfileAppConfig(parsed.name, parsed.block) IN
          /\ parsed' = [parsed EXCEPT !.done = TRUE, !.err = out.err,
                                      !.isNil = out.isNil,
                                      !.Repositories = out.Repositories]
          /\ cfg' = out.Repositories
    /\ UNCHANGED <<manager, repos, updating, mu, dirs, pc, target, err, ops,
                   overlap, endpoint, req, status, auth, provIdx, calls,
                   written, repoMap, added, authOut>>

\* the adapter calls parseCaddyfileHandlerConfig on a git directive
ParseHandlerConfig ==
    /\ parsed.fn = "handler" /\ ~parsed.done
    /\ LET out == parseCaddyfileHandlerConfig(parsed.args) IN
          parsed' = [parsed EXCEPT !.done = TRUE, !.err = out.err,
                                   !.endpoint = out.endpoint]
    /\ UNCHANGED <<cfg, manager, repos, updating, mu, dirs, pc, target, err, ops,
                   overlap, endpoint, req, status, auth, provIdx, calls,
                   written, repoMap, added, authOut>>

InitParse ==
    /\ parsed \in ParseInputs
    /\ cfg = <<>>
    /\ repoMap = NoRepoMap
    /\ added = NoAdd
    /\ authOut = NoAuthOut
    /\ manager = "nil"
    /\ repos = [n \in RegistryNames |-> 0]
    /\ updating = <<>>
    /\ mu = <<>>
    /\ dirs = {<<"/srv">>}
    /\ pc = [c \in CallersOf(0, 0) |-> "config"]
    /\ target = [c \in CallersOf(0, 0) |-> 0]
    /\ err = [c \in CallersOf(0, 0) |-> "none"]
    /\ ops = [c \in CallersOf(0, 0) |-> <<>>]
    /\ overlap = [c \in CallersOf(0, 0) |-> {}]
    /\ endpoint = [c \in CallersOf(0, 0) |-> ""]
    /\ req = [c \in {Http(k) : k \in 1..0} |-> NoReq]
    /\ status = [c \in CallersOf(0, 0) |-> 0]
    /\ auth = [c \in CallersOf(0, 0) |-> NoAuthRecord]
    /\ provIdx = 0
    /\ calls = [c \in CallersOf(0, 0) |-> 0]
    /\ written = [c \in CallersOf(0, 0) |-> 0]

NextParse == ParseAppConfig \/ ParseHandlerConfig

SpecParse == InitParse /\ [][NextParse]_vars


(***************************************************************************)
(* Properties.                                                             *)
(***************************************************************************)
\* a handler is serving a request: the lookup and the webhook check are done
Served(c) == c \in Handlers /\ pc[c] # "idle"
\* the Repository the request was looked up to, 0: not found
RepoOf(c) == repos[endpoint[c]]
HooksOf(c) == cfg[RepoOf(c)].Webhooks
\* the handler called repo.update() for the request
Invoked(c) == target[c] # 0
\* the value the request carries for the header of webhook i
HdrOf(c, i) == HeaderGet(req[c], HooksOf(c)[i].Header)
\* the call of c has run runUpdate
DidIO(c) == ops[c] # <<>>
Returned(c) == pc[c] \in {"ret", "done"}

\* C1: of two update calls on one repository, the later of which checked the
\* flag while the earlier was between its own check and its clearing of the
\* flag, at most one performs I/O, and the later one returns nil without I/O.
C1_OneSyncAmongOverlapping ==
    \A b \in Callers : \A a \in overlap[b] :
        /\ ~(DidIO(a) /\ DidIO(b))
        /\ Returned(b) => (err[b] = "nil" /\ ~DidIO(b))

\* C2: at most one caller is inside the section of update guarded by mu, and
\* it is the holder of mu.
C2_MutualExclusion ==
    \A i \in RepoIdx :
        /\ Cardinality({c \in Callers : target[c] = i /\ pc[c] \in GuardedPcs}) <= 1
        /\ \A c \in Callers :
              (target[c] = i /\ pc[c] \in GuardedPcs) => mu[i] = c

\* C2 witness: one caller syncs while another waits for the lock.
C2_Witness ==
    \E a \in Callers, b \in Callers :
        /\ a # b /\ target[a] = target[b]
        /\ pc[a] \in {"run", "post"} /\ pc[b] = "lock"

\* C3: a call that checks the flag while another update of the repository is
\* in flight never waits for the lock and never syncs: it has returned nil.
C3_ContendedCallSkips ==
    \A c \in Callers :
        (overlap[c] # {} /\ pc[c] # "check") =>
            (Returned(c) /\ err[c] = "nil" /\ ~DidIO(c))

\* C4: when no caller is inside the guarded section of a repository, its flag
\* is false and its lock is free, whatever the calls before returned.
C4_FlagClearedOnExit ==
    \A i \in RepoIdx :
        (\A c \in Callers : target[c] = i => pc[c] \notin GuardedPcs)
            => (updating[i] = FALSE /\ mu[i] = NoCaller)

\* C4 witness: an update that failed has returned, flag false and lock free.
C4_Witness ==
    \E c \in Callers :
        /\ pc[c] = "ret" /\ err[c] \notin {"nil", "none"} /\ DidIO(c)
        /\ updating[target[c]] = FALSE /\ mu[target[c]] = NoCaller

\* C5: with a webhook configured, update is invoked only if a configured
\* header is present and the webhook evaluated for it passed; otherwise the
\* status is 401 and update is not invoked.
C5_UpdateOnlyIfAuthorized ==
    \A c \in Handlers :
        (Served(c) /\ RepoOf(c) # 0 /\ Len(HooksOf(c)) > 0) =>
            LET present == {i \in 1..Len(HooksOf(c)) : HdrOf(c, i) # <<>>} IN
            /\ Invoked(c) =>
                  (auth[c].authorized /\ auth[c].evaluated \in present)
            /\ (present = {} \/ ~auth[c].authorized) =>
                  (status[c] = StatusUnauthorized /\ ~Invoked(c) /\ pc[c] = "done")

\* C5 witness: a request that passed the webhook check is being synced.
C5_Witness ==
    \E c \in Handlers :
        /\ Served(c) /\ RepoOf(c) # 0 /\ Len(HooksOf(c)) > 0
        /\ auth[c].authorized /\ pc[c] = "run"

\* the part of a header value before and after its first "="
SigPrefix(hdr) == SubSeq(hdr, 1, IndexEq(hdr) - 1)
SigDigest(hdr) == TrimSpace(SubSeq(hdr, IndexEq(hdr) + 1, Len(hdr)))

\* C6: for a webhook on X-Hub-Signature-256, a non-POST method, a value
\* without "=", a prefix other than sha256 and a digest that is not the HMAC
\* of the body each yield 401 and no update.
C6_SignatureFailures ==
    \A c \in Handlers :
        (Served(c) /\ RepoOf(c) # 0 /\ auth[c].evaluated # 0
         /\ HooksOf(c)[auth[c].evaluated].Header = SigHeader) =>
            LET w   == HooksOf(c)[auth[c].evaluated]
                hdr == HdrOf(c, auth[c].evaluated)
            IN  (\/ req[c].method # "POST"
                 \/ IndexEq(hdr) = 0
                 \/ SigPrefix(hdr) # Sha256Prefix
                 \/ SigDigest(hdr) # HmacSha256Hex(w.Secret, req[c].body))
                => (status[c] = StatusUnauthorized /\ ~Invoked(c))

\* C7 as stated: a request that satisfies any one configured webhook is
\* authorized and update is invoked.
C7_AnyWebhookSuffices ==
    \A c \in Handlers :
        (Served(c) /\ RepoOf(c) # 0 /\ Len(HooksOf(c)) > 0) =>
            ((\E i \in 1..Len(HooksOf(c)) :
                 /\ HdrOf(c, i) # <<>>
                 /\ ~CheckWebhook(HooksOf(c)[i], req[c], HdrOf(c, i)).authFailed)
             => Invoked(c))

\* C7 amended: the first configured webhook whose header the request carries
\* decides alone: update is invoked if and only if that webhook's check passes.
C7_FirstPresentDecides ==
    \A c \in Handlers :
        (Served(c) /\ RepoOf(c) # 0 /\ Len(HooksOf(c)) > 0) =>
            LET present == {i \in 1..Len(HooksOf(c)) : HdrOf(c, i) # <<>>} IN
            IF present = {}
            THEN ~Invoked(c)
            ELSE LET f == CHOOSE i \in present : \A j \in present : i <= j IN
                 Invoked(c) <=>
                    ~CheckWebhook(HooksOf(c)[f], req[c], HdrOf(c, f)).authFailed

\* C7 witness: two configured headers are present, the first passes, a later
\* one fails, and update is invoked.
C7_Witness ==
    \E c \in Handlers :
        /\ Served(c) /\ RepoOf(c) # 0 /\ Invoked(c)
        /\ \E i \in 1..Len(HooksOf(c)), j \in 1..Len(HooksOf(c)) :
              /\ i < j /\ HdrOf(c, i) # <<>> /\ HdrOf(c, j) # <<>>
              /\ \A k \in 1..(i-1) : HdrOf(c, k) = <<>>
              /\ CheckWebhook(HooksOf(c)[j], req[c], HdrOf(c, j)).authFailed

\* C8: a POST whose signature header is sha256=<hex HMAC of a body under a
\* secret> is authorized if and only if that body is the request's body and
\* that secret the webhook's secret.
C8_SignatureRoundTrip ==
    \A c \in Handlers :
        (Served(c) /\ RepoOf(c) # 0 /\ auth[c].evaluated # 0
         /\ IsSignatureHeader(HooksOf(c)[auth[c].evaluated].Header)
         /\ req[c].method = "POST") =>
            \A s \in Secrets, b \in Bodies :
                HdrOf(c, auth[c].evaluated) = ValidSig(s, b) =>
                    /\ Invoked(c) <=>
                          (s = HooksOf(c)[auth[c].evaluated].Secret /\ b = req[c].body)
                    /\ ~Invoked(c) => status[c] = StatusUnauthorized

\* C8 witness: a POST signed with the webhook's secret over its body is synced.
C8_Witness ==
    \E c \in Handlers :
        /\ Served(c) /\ RepoOf(c) # 0 /\ auth[c].evaluated # 0
        /\ HooksOf(c)[auth[c].evaluated].Header = SigHeader
        /\ req[c].method = "POST"
        /\ HdrOf(c, auth[c].evaluated) =
              ValidSig(HooksOf(c)[auth[c].evaluated].Secret, req[c].body)
        /\ Invoked(c) /\ pc[c] = "run"

\* the webhook at position i is the one a request can be authorized by: no
\* webhook before it finds its header in the request
Reaches(c, i) == \A j \in 1..(i-1) : HdrOf(c, j) = <<>>

\* C9 as stated: a webhook on another header than the signature header
\* authorizes the request if and only if the header value equals its secret,
\* the empty value included.
C9_SecretMatchIff ==
    \A c \in Handlers :
        (Served(c) /\ RepoOf(c) # 0) =>
            \A i \in 1..Len(HooksOf(c)) :
                (~IsSignatureHeader(HooksOf(c)[i].Header) /\ Reaches(c, i)) =>
                    ((Invoked(c) /\ auth[c].evaluated = i)
                        <=> HdrOf(c, i) = HooksOf(c)[i].Secret)

\* C9 amended: such a webhook authorizes the request if and only if the
\* header value is not empty and equals its secret exactly.
C9_SecretMatchNonEmpty ==
    \A c \in Handlers :
        (Served(c) /\ RepoOf(c) # 0) =>
            \A i \in 1..Len(HooksOf(c)) :
                (~IsSignatureHeader(HooksOf(c)[i].Header) /\ Reaches(c, i)) =>
                    ((Invoked(c) /\ auth[c].evaluated = i)
                        <=> (HdrOf(c, i) # <<>> /\ HdrOf(c, i) = HooksOf(c)[i].Secret))

\* C9 witness: the header carries the secret and the request is synced.
C9_Witness ==
    \E c \in Handlers :
        /\ Served(c) /\ RepoOf(c) # 0 /\ auth[c].evaluated # 0
        /\ HooksOf(c)[auth[c].evaluated].Header = TokenHeader
        /\ HdrOf(c, auth[c].evaluated) = HooksOf(c)[auth[c].evaluated].Secret
        /\ Invoked(c) /\ pc[c] = "run"

\* C10: a request for a name that is not in the registry gets status 500 and
\* no update is called for it.
C10_UnknownRepository ==
    \A c \in Handlers :
        (Served(c) /\ RepoOf(c) = 0) =>
            /\ status[c] = StatusInternalServerError
            /\ ~Invoked(c) /\ ~DidIO(c)
            /\ pc[c] = "done"

\* C10 witness: a correctly signed POST for an unknown name is answered 500.
C10_Witness ==
    \E c \in Handlers :
        /\ pc[c] = "done" /\ RepoOf(c) = 0
        /\ req[c].method = "POST"
        /\ req[c].headers[SigHeader] = ValidSig(Secret1, req[c].body)
        /\ status[c] = StatusInternalServerError

\* the webhook check let the request through: none configured, or passed
Admitted(c) ==
    Served(c) /\ RepoOf(c) # 0 /\ (Len(HooksOf(c)) = 0 \/ auth[c].authorized)

\* C11: a request for a registered repository with no webhook configured, or
\* whose webhook check passed, calls update exactly once; the status is 500 if
\* update returned an error and 200 otherwise.
C11_AdmittedUpdatesOnce ==
    \A c \in Handlers :
        Admitted(c) =>
            /\ calls[c] = 1 /\ Invoked(c)
            /\ pc[c] = "done" =>
                  status[c] = (IF err[c] # "nil" THEN StatusInternalServerError
                               ELSE StatusOK)

\* C11 witness: no webhook is configured, the request carries webhook headers
\* all the same, update failed and the status is 500.
C11_Witness ==
    \E c \in Handlers :
        /\ Admitted(c) /\ Len(HooksOf(c)) = 0
        /\ req[c].headers[TokenHeader] # <<>> /\ req[c].headers[SigHeader] # <<>>
        /\ pc[c] = "done" /\ calls[c] = 1
        /\ err[c] \notin {"nil", "none"} /\ status[c] = StatusInternalServerError

\* the outcome of a served request: not found, unauthorized, failed, synced
Outcome(c) ==
    IF RepoOf(c) = 0 THEN StatusInternalServerError
    ELSE IF ~Admitted(c) THEN StatusUnauthorized
    ELSE IF err[c] # "nil" THEN StatusInternalServerError
    ELSE StatusOK

\* C12: the status written on the response is the outcome of the request
\* (200, 401 or 500) and equals the status_code of the payload.
C12_WrittenStatusIsOutcome ==
    \A c \in Handlers :
        pc[c] = "done" =>
            /\ written[c] = Outcome(c)
            /\ written[c] = status[c]
            /\ written[c] \in {StatusOK, StatusUnauthorized, StatusInternalServerError}

\* C12 witness: an unauthorized request has been answered 401.
C12_Witness ==
    \E c \in Handlers :
        /\ pc[c] = "done" /\ RepoOf(c) # 0 /\ ~Admitted(c)
        /\ written[c] = StatusUnauthorized /\ status[c] = StatusUnauthorized

\* the operations of the sync a call has run
HasOp(c, name) == \E k \in 1..Len(ops[c]) : ops[c][k].op = name
HasOk(c, name, ok) == \E k \in 1..Len(ops[c]) : ops[c][k] = Op(name, ok)
Pulled(c) == HasOp(c, "pull") \/ HasOp(c, "uptodate")
CloneBeforePull(c) ==
    \A k \in 1..Len(ops[c]), l \in 1..Len(ops[c]) :
        (ops[c][k].op = "clone" /\ ops[c][l].op \in {"pull", "uptodate"}) => k < l

\* C13 as stated: a sync clones if and only if the directory was absent when
\* checked, always attempts a pull afterwards, and succeeds when the pull
\* reports that the copy is up to date.
C13_CloneIffAbsentPullAlways ==
    \A c \in Callers :
        DidIO(c) =>
            /\ HasOp(c, "clone") <=> HasOk(c, "exists", FALSE)
            /\ Pulled(c) /\ CloneBeforePull(c)
            /\ HasOp(c, "uptodate") => err[c] = "nil"

\* C13 amended: a clone is attempted only if the directory was absent when
\* checked, and then unless loading the key failed; a directory found is never
\* cloned into; the pull is attempted exactly when no step before it failed
\* (directory checks, mkdir, key, clone, open), after the clone when there was
\* one; a pull reporting that the copy is up to date makes update succeed.
C13_CloneIfAbsentPullUnlessFailed ==
    \A c \in Callers :
        DidIO(c) =>
            /\ HasOp(c, "clone") => HasOk(c, "exists", FALSE)
            /\ HasOk(c, "exists", FALSE) => (HasOp(c, "clone") \/ err[c] = "key")
            /\ HasOk(c, "exists", TRUE) => ~HasOp(c, "clone")
            /\ Pulled(c) <=> err[c] \notin {"stat", "mkdir", "key", "clone", "open"}
            /\ Pulled(c) => ~HasOk(c, "clone", FALSE)
            /\ CloneBeforePull(c)
            /\ HasOp(c, "uptodate") => err[c] = "nil"

\* C13 witness: the directory was absent, the sync cloned and then pulled,
\* the pull found the copy up to date and update succeeded.
C13_Witness ==
    \E c \in Callers :
        /\ pc[c] = "ret" /\ err[c] = "nil"
        /\ HasOk(c, "exists", FALSE) /\ HasOk(c, "clone", TRUE)
        /\ HasOp(c, "uptodate")

\* C14: once the pull succeeded or reported that the copy is up to date,
\* update returns nil, whatever the post-pull commands do.
C14_PullSuccessIsUpdateSuccess ==
    \A c \in Callers :
        (HasOk(c, "pull", TRUE) \/ HasOp(c, "uptodate")) => err[c] = "nil"

\* no goroutine works on Repository i, it has no scheduler and no entry in
\* the registry
Untouched(i) ==
    /\ \A c \in Callers : target[c] # i
    /\ pc[Sched(i)] = "off"
    /\ \A n \in DOMAIN repos : repos[n] # i

\* C15: an initial sync that fails makes NewManager return that error and
\* nothing else: it never goes on to the repositories after the failing one,
\* which are neither registered, nor synced, nor scheduled.
C15_FailedSyncFailsProvisioning ==
    /\ [](/\ \A i \in RepoIdx : i > provIdx => Untouched(i)
          /\ pc[Prov] = "failed" => err[Prov] \notin {"nil", "none"})
    /\ [][/\ (pc[Prov] = "ret" /\ err[Prov] # "nil")
               => pc'[Prov] \in {"ret", "failed"}
          /\ pc[Prov] = "failed"
               => (pc'[Prov] = "failed" /\ provIdx' = provIdx
                   /\ err'[Prov] = err[Prov])]_vars

\* C15 witness: the sync of the first repository failed, NewManager returned
\* the error, and the repository declared after it is untouched.
C15_Witness ==
    /\ pc[Prov] = "failed" /\ DidIO(Prov)
    /\ err[Prov] \in {"stat", "mkdir", "key", "clone", "open", "pull", "head"}
    /\ provIdx = 1 /\ Len(cfg) > 1
    /\ validate(cfg[2]) = "nil" /\ cfg[2].UpdateInterval > 0
    /\ Untouched(2)

\* C16: the scheduler of a repository runs if and only if its update
\* interval is positive and NewManager has got its initial sync back without
\* error; a scheduler only ever syncs its own repository, so a repository
\* with interval 0 is never synced by one.
C16_SchedulerIffIntervalAndSynced ==
    \A i \in RepoIdx :
        /\ pc[Sched(i)] # "off" <=> (provIdx > i /\ cfg[i].UpdateInterval > 0)
        /\ pc[Sched(i)] # "off" => target[Prov] # i
        /\ target[Sched(i)] \in {0, i}
        /\ cfg[i].UpdateInterval = 0 =>
              \A c \in Scheds : target[c] # i

\* C16 witness: one repository is being synced by its scheduler while a
\* repository with interval 0 is registered and has none.
C16_Witness ==
    \E i \in RepoIdx, j \in RepoIdx :
        /\ pc[Sched(i)] = "run" /\ cfg[i].UpdateInterval > 0
        /\ cfg[j].UpdateInterval = 0 /\ provIdx > j /\ pc[Sched(j)] = "off"

\* C17: a tick whose update returned an error leaves the scheduler waiting
\* for the next tick, changes nothing for NewManager, and the next tick
\* calls update on the repository again.
C17_FailedTickKeepsTimer ==
    [][\A c \in Scheds :
          /\ (pc[c] = "ret" /\ err[c] # "nil" /\ pc'[c] # "ret")
                => (pc'[c] = "wait" /\ pc'[Prov] = pc[Prov]
                    /\ err'[Prov] = err[Prov])
          /\ (pc[c] = "wait" /\ pc'[c] # "wait")
                => (pc'[c] = "check" /\ target'[c] = c[2])
          /\ pc[c] # "off" => pc'[c] # "off"]_vars

\* C17 witness: the update of a tick has returned an error to the scheduler.
C17_Witness ==
    \E c \in Scheds :
        pc[c] = "ret" /\ DidIO(c) /\ err[c] \in {"open", "pull", "head", "key"}

\* C19: NewManager lets no repository with an empty name in, and none whose
\* name an earlier repository of the list has: the entry of a repository it
\* has registered stays that repository's.
C19_NamesRevalidated ==
    /\ repos[""] = 0
    /\ \A i \in RepoIdx : i < provIdx => repos[cfg[i].Name] = i
    /\ pc[Prov] = "done" =>
          \A i \in RepoIdx, j \in RepoIdx :
              cfg[i].Name # "" /\ (i # j => cfg[i].Name # cfg[j].Name)

\* C18: a call of AddRepository that returns an error leaves the list and
\* the map as they were, and a call with a name that is registered already
\* (after trimming) returns the duplicate-name error.
C18_RejectedLeavesRegistry ==
    [][/\ added'.err # "nil" => (cfg' = cfg /\ repoMap' = repoMap)
       /\ (~added'.arg.isNil /\ TrimSpace(added'.arg.rc.Name) \in DOMAIN repoMap)
             => added'.err = "name already exists"
       /\ added'.arg.isNil => added'.err = "config is nil"
       /\ (~added'.arg.isNil /\ TrimSpace(added'.arg.rc.Name) = <<>>)
             => added'.err = "name is empty"]_vars

\* C18 witness: a name that differs from a registered one by its spaces only
\* has been rejected as a duplicate, the registry holding two repositories.
C18_Witness ==
    /\ Len(cfg) = 2 /\ DOMAIN repoMap = {cfg[1].Name, cfg[2].Name}
    /\ added.err = "name already exists"
    /\ added.arg.rc.Name # TrimSpace(added.arg.rc.Name)
    /\ validate(added.arg.rc) = "nil"

\* the forms of address the transports support
SupportedSchemes == {"http://", "https://", "ssh://", "git@"}

\* C20: every configuration that passed validation has a non-empty address
\* that ends with .git and starts with a supported scheme, and its transport
\* is http exactly when the address starts with http:// or https://.
C20_AddressValidated ==
    \A i \in 1..Len(cfg) :
        /\ cfg[i].Address # <<>>
        /\ HasSuffix(cfg[i].Address, ".git")
        /\ cfg[i].Address[1] \in SupportedSchemes
        /\ cfg[i].transport = "http" <=>
              (HasPrefix(cfg[i].Address, "http://") \/ HasPrefix(cfg[i].Address, "https://"))
        /\ cfg[i].transport \in {"http", "ssh"}

\* another call on the Repository of c is inside the section guarded by mu
SameRepoGuarded(c) ==
    \E d \in Callers \ {c} : target[d] = target[c] /\ pc[d] \in GuardedPcs

\* C21: an update waits for the lock, or is skipped, only while another call
\* on the same repository is inside the guarded section: an update in flight
\* on a different repository makes no call wait and no call skip.
C21_IndependentRepositories ==
    /\ [](\A c \in Callers :
             (pc[c] = "lock" /\ ~MutexFree(target[c])) => SameRepoGuarded(c))
    /\ [][\A c \in Callers :
             (pc[c] = "check" /\ pc'[c] = "ret") => SameRepoGuarded(c)]_vars

\* C21 witness: the two repositories are being synced at the same time, each
\* by its scheduler, while a trigger request waits for the lock of one.
C21_Witness ==
    /\ pc[Sched(1)] = "run" /\ target[Sched(1)] = 1
    /\ pc[Sched(2)] = "run" /\ target[Sched(2)] = 2
    /\ \E c \in Handlers : pc[c] = "lock"

\* C22: whenever the flag of a repository is true, exactly one caller is
\* inside the guarded section of that repository and it holds the lock, past
\* its write of the flag and not past its clearing of it: the flag is set
\* after the lock is taken and cleared before the lock is released.
C22_FlagOnlyUnderLock ==
    \A i \in RepoIdx :
        updating[i] =>
            /\ mu[i] # NoCaller
            /\ target[mu[i]] = i /\ pc[mu[i]] \in {"run", "post", "clear"}
            /\ {c \in Callers : target[c] = i /\ pc[c] \in GuardedPcs} = {mu[i]}

\* C22 witness: a sync has failed and its caller, still holding the lock, is
\* about to clear the flag, while another caller waits for the lock.
C22_Witness ==
    \E c \in Callers, d \in Callers :
        /\ c # d /\ target[d] = target[c] /\ pc[d] = "lock"
        /\ pc[c] = "clear" /\ err[c] \notin {"nil", "none"}
        /\ updating[target[c]] /\ mu[target[c]] = c

\* the working copy of Repository i: base_dir/name, the home shorthand resolved
WorkDir(i) == pathJoin(expandDir(cfg[i].BaseDir, TRUE), cfg[i].Name)

\* C23: no two Repository objects are inside their guarded sections, each
\* under its own lock, syncing the same directory base_dir/name.
C23_OneSyncPerDirectory ==
    \A a \in Callers, b \in Callers :
        (/\ target[a] # 0 /\ target[b] # 0 /\ target[a] # target[b]
         /\ pc[a] \in {"run", "post"} /\ pc[b] \in {"run", "post"})
            => WorkDir(target[a]) # WorkDir(target[b])

\* C24: a request has looked a repository up, or is updating one, only if
\* the call of NewManager that made the manager has returned.
C24_LookupAfterProvisioning ==
    \A c \in Handlers :
        (Served(c) \/ Invoked(c)) => pc[Prov] \in {"done", "failed"}

\* C25 as stated: once NewManager has returned an error no scheduler is left
\* running.
C25_NoSchedulerAfterFailure ==
    pc[Prov] = "failed" => \A c \in Scheds : pc[c] = "off"

\* C25 amended: the return of an error by NewManager stops no scheduler. The
\* schedulers of the repositories before the failing one that have an update
\* interval are running and stay so, their next tick being due whenever they
\* wait; the failing repository and those after it have none and get none.
C25_FailureStopsNoScheduler ==
    /\ [](pc[Prov] = "failed" =>
             \A i \in RepoIdx :
                /\ pc[Sched(i)] # "off" <=>
                      (i < provIdx /\ cfg[i].UpdateInterval > 0)
                /\ pc[Sched(i)] = "wait" => ENABLED Tick(Sched(i)))
    /\ [][pc[Prov] = "failed" =>
             \A c \in Scheds : (pc[c] = "off") <=> (pc'[c] = "off")]_vars

\* C25 witness: the sync of the second repository failed, NewManager has
\* returned the error, and the scheduler of the first repository is syncing.
C25_Witness ==
    /\ pc[Prov] = "failed" /\ provIdx = 2 /\ DidIO(Prov)
    /\ err[Prov] \notin {"nil", "none"}
    /\ pc[Sched(1)] = "run" /\ pc[Sched(2)] = "off"

\* C26: under the fairness of SpecLive every call of update returns, and a
\* lock is held only by a caller inside such a call, before its return: no
\* caller stays blocked and no lock stays held.
C26_UpdateReturns ==
    /\ \A c \in LiveCallers :
          (pc[c] \in UpdatePcs) ~> (pc[c] = "ret")
    /\ [](\A i \in RepoIdx :
             mu[i] # NoCaller =>
                (target[mu[i]] = i /\ pc[mu[i]] \in GuardedPcs))

\* C26 witness: a trigger request waits for the lock its repository's
\* scheduler holds while the post-pull commands run.
C26_Witness ==
    \E c \in Handlers :
        /\ pc[c] = "lock" /\ target[c] = 1
        /\ mu[1] = Sched(1) /\ pc[Sched(1)] = "post"

\* the pull of the call succeeded or found the copy up to date
PullOk(c) == HasOk(c, "pull", TRUE) \/ HasOp(c, "uptodate")

RECURSIVE CommandsFrom(_, _)
CommandsFrom(execs, i) ==
    IF i > Len(execs) THEN <<>>
    ELSE IF execs[i].Command = "" THEN CommandsFrom(execs, i + 1)
    ELSE <<execs[i].Command>> \o CommandsFrom(execs, i + 1)

\* the commands the call of c has run, in the order it ran them
RECURSIVE CommandsRun(_, _)
CommandsRun(c, k) ==
    IF k > Len(ops[c]) THEN <<>>
    ELSE IF ops[c][k].op # "exec" THEN CommandsRun(c, k + 1)
    ELSE <<ops[c][k].cmd>> \o CommandsRun(c, k + 1)

\* the call of c is past the post-pull step of a sync that succeeded
PastPost(c) ==
    pc[c] \in {"clear", "unlock", "ret"} /\ err[c] = "nil" /\ DidIO(c)

\* C28: once a sync has succeeded and update is past its post-pull step, the
\* commands it has run are the commands of the configured entries that have
\* one, each once and in configured order, whichever of them failed.
C28_EveryCommandOnceInOrder ==
    \A c \in Callers :
        PastPost(c) =>
            CommandsRun(c, 1) = CommandsFrom(cfg[target[c]].PostPullExec, 1)

\* C28 witness: of two different commands the first failed and the second
\* was run all the same.
C28_Witness ==
    \E c \in Callers :
        /\ PastPost(c) /\ Len(cfg[target[c]].PostPullExec) >= 2
        /\ \E k \in 1..Len(ops[c]) :
              /\ k < Len(ops[c])
              /\ ops[c][k].op = "exec" /\ ~ops[c][k].ok
              /\ ops[c][k+1].op = "exec" /\ ops[c][k+1].cmd # ops[c][k].cmd

\* C29: a call of update in which the key file could not be loaded returns
\* that error; the failed load is the last thing it did, so it attempted no
\* clone and no pull after it and ran no post-pull command; every clone and
\* every pull of a repository that authenticates with a key comes straight
\* after a load of the key that succeeded; and once the call has returned
\* its caller holds the lock no more and the flag is false unless another
\* caller holds the lock.
C29_KeyFailureSurfaces ==
    \A c \in Callers :
        /\ HasOk(c, "key", FALSE) =>
              /\ err[c] = "key"
              /\ ops[c][Len(ops[c])] = Op("key", FALSE)
              /\ ~Pulled(c) /\ ~HasOp(c, "exec") /\ ~HasOk(c, "clone", FALSE)
              /\ pc[c] \notin {"run", "post"}
              /\ pc[c] \notin UpdatePcs =>
                    /\ mu[target[c]] # c
                    /\ mu[target[c]] = NoCaller => updating[target[c]] = FALSE
        /\ (target[c] # 0 /\ LoadsKey(cfg[target[c]])) =>
              \A l \in 1..Len(ops[c]) :
                  ops[c][l].op \in {"clone", "pull", "uptodate"} =>
                      (l > 1 /\ ops[c][l-1] = Op("key", TRUE))

\* C29 witness: the working copy was absent, the key could not be loaded,
\* and update has returned the error without cloning, the post-pull
\* commands not run and the flag cleared.
C29_Witness ==
    \E c \in Callers :
        /\ pc[c] = "ret" /\ err[c] = "key"
        /\ HasOk(c, "exists", FALSE) /\ HasOk(c, "key", FALSE)
        /\ ~HasOp(c, "clone") /\ ~Pulled(c)
        /\ Len(cfg[target[c]].PostPullExec) > 0 /\ ~HasOp(c, "exec")
        /\ updating[target[c]] = FALSE /\ mu[target[c]] = NoCaller

\* C30: what configureAuthOptions returns for each combination of transport
\* and auth fields. No auth block: none. http: basic auth with the username
\* and password if there is a username, else none. ssh: key-based
\* credentials for the key path if there is one, whatever the username and
\* password (the error of loading the key when it cannot be loaded); else
\* password credentials if there is a username; else none. Any other
\* transport: none. No error but that of loading the key.
C30_AuthMethodByTransport ==
    authOut.called =>
        LET rc == cfg[1]
            a  == rc.Auth
            m  == authOut.method
            e  == authOut.err
        IN
        /\ a.isNil => (m = NoAuthMethod /\ e = "nil")
        /\ (~a.isNil /\ rc.transport = "http" /\ a.Username # <<>>) =>
              /\ m.kind = "basic" /\ e = "nil"
              /\ m.user = a.Username /\ m.password = a.Password
        /\ (~a.isNil /\ rc.transport = "http" /\ a.Username = <<>>) =>
              (m = NoAuthMethod /\ e = "nil")
        /\ (~a.isNil /\ rc.transport = "ssh" /\ a.KeyPath # <<>>) =>
              IF authOut.keyOK
              THEN /\ m.kind = "publickeys" /\ e = "nil"
                   /\ m.keyPath = a.KeyPath /\ m.passphrase = a.KeyPassphrase
                   /\ m.password = <<>>
              ELSE m = NoAuthMethod /\ e = "key"
        /\ (~a.isNil /\ rc.transport = "ssh" /\ a.KeyPath = <<>>
             /\ a.Username # <<>>) =>
              /\ m.kind = "password" /\ e = "nil"
              /\ m.user = a.Username /\ m.password = a.Password
        /\ (~a.isNil /\ rc.transport = "ssh" /\ a.KeyPath = <<>>
             /\ a.Username = <<>>) =>
              (m = NoAuthMethod /\ e = "nil")
        /\ rc.transport \notin {"http", "ssh"} => (m = NoAuthMethod /\ e = "nil")

\* C30 witness: over ssh, with key path, username and password all set, the
\* credentials returned are key-based.
C30_Witness ==
    /\ authOut.called /\ authOut.err = "nil"
    /\ ~cfg[1].Auth.isNil /\ cfg[1].transport = "ssh"
    /\ cfg[1].Auth.KeyPath # <<>> /\ cfg[1].Auth.Username # <<>>
    /\ cfg[1].Auth.Password # <<>>
    /\ authOut.method.kind = "publickeys"

\* C31: the user of key-based SSH credentials is the part of the address
\* before its first "@" when the address holds an "@", else the username of
\* the auth block when there is one, else "git"; and it is not empty when the
\* address does not start with "@".
C31_PublicKeysUser ==
    (authOut.called /\ authOut.method.kind = "publickeys") =>
        LET rc == cfg[1]
            u  == authOut.method.user
        IN
        /\ ContainsAt(rc.Address) => u = BeforeAt(rc.Address)
        /\ (~ContainsAt(rc.Address) /\ rc.Auth.Username # <<>>) =>
              u = rc.Auth.Username
        /\ (~ContainsAt(rc.Address) /\ rc.Auth.Username = <<>>) => u = DefaultUser
        /\ rc.Address[1] # "@" => u # <<>>

\* C32: the SSH credentials configureAuthOptions returns, key-based or
\* password-based, accept any host key exactly when the auth block has
\* StrictHostKeyCheckingDisabled set; no other result accepts any host key.
C32_HostKeyBypassOptIn ==
    authOut.called =>
        IF authOut.method.kind \in {"publickeys", "password"}
        THEN authOut.method.insecure = cfg[1].Auth.StrictHostKeyCheckingDisabled
        ELSE ~authOut.method.insecure

\* C32 witness: password credentials of a block with the flag unset, which
\* keep the host key check.
C32_Witness ==
    /\ authOut.called /\ authOut.method.kind = "password"
    /\ ~cfg[1].Auth.StrictHostKeyCheckingDisabled
    /\ ~authOut.method.insecure

\* the fields of a RepositoryConfig that describe the repository
ConfigFields(rc) ==
    <<rc.Address, rc.BaseDir, rc.Branch, rc.Depth, rc.Auth, rc.Webhooks,
      rc.PostPullExec>>

\* C33: no step of update changes the RepositoryConfig of its repository:
\* address, base directory, branch, depth, auth block (key path included),
\* webhooks and post-pull commands are after the step what they were before.
C33_UpdateKeepsConfig ==
    [][\A i \in DOMAIN cfg : ConfigFields(cfg'[i]) = ConfigFields(cfg[i])]_vars

\* C34: when a repository configuration of the list fails validation, no
\* step of the provisioning does I/O for any repository of the list: no
\* directory is made, nothing is cloned or pulled and no command is run.
C34_NoIOBeforeValidation ==
    [][(\E i \in DOMAIN cfg : validate(cfg[i]) # "nil") =>
          /\ dirs' = dirs
          /\ \A c \in Callers : ops'[c] # ops[c] => ops'[c] = <<>>]_vars

\* an entry whose key the parser does not support, and one of a known key
\* with fewer arguments than the minimum of its rule or more than the maximum
Unsupported(e) == e.k \notin DOMAIN argRules
BadCount(e) ==
    /\ e.k \in DOMAIN argRules
    /\ (Len(e.v) < argRules[e.k].Min \/ Len(e.v) > argRules[e.k].Max)

\* a well-formed base_dir, url, branch or depth entry: one argument, an
\* integer for depth, an address the configuration accepts for url
WellFormed(e) ==
    /\ e.k \in {"base_dir", "url", "branch", "depth"}
    /\ Len(e.v) = 1
    /\ e.k = "depth" => Atoi(e.v[1]).ok
    /\ e.k = "url" => HasSuffix(e.v[1], ".git")

\* the value the last entry with key k gives, placeholders replaced; the
\* empty value when the block has no such entry
LastValue(block, k) ==
    LET I == {i \in 1..Len(block) : block[i].k = k} IN
    IF I = {} THEN <<>>
    ELSE ReplaceAll(block[CHOOSE i \in I : \A j \in I : j <= i].v[1])

\* C35: parsing a repo block that holds an unsupported key, or a known key
\* with too few or too many arguments, returns a parse error and no app
\* configuration; parsing a block of well-formed base_dir, url, branch and
\* depth entries only, a url among them, under a name that is not blank,
\* returns a configuration with exactly one repository, which has the
\* block's name and the values of the entries.
C35_RepoBlockParse ==
    (parsed.fn = "app" /\ parsed.done) =>
        LET block == parsed.block IN
        /\ (\E i \in 1..Len(block) : Unsupported(block[i]) \/ BadCount(block[i])) =>
              (parsed.err \notin {"nil", "panic"} /\ parsed.isNil)
        /\ (/\ \A i \in 1..Len(block) : WellFormed(block[i])
            /\ \E i \in 1..Len(block) : block[i].k = "url"
            /\ TrimSpace(parsed.name) # <<>>) =>
              /\ parsed.err = "nil" /\ ~parsed.isNil
              /\ Len(parsed.Repositories) = 1
              /\ LET rc == parsed.Repositories[1] IN
                    /\ rc.Name = TrimSpace(parsed.name)
                    /\ rc.BaseDir = LastValue(block, "base_dir")
                    /\ rc.Address = LastValue(block, "url")
                    /\ rc.Branch = LastValue(block, "branch")
                    /\ rc.Depth = Atoi(LastValue(block, "depth")).n
                    /\ rc.UpdateInterval = 0 /\ rc.Auth = NilAuth
                    /\ rc.Webhooks = <<>> /\ rc.PostPullExec = <<>>

\* C36: no call of a Caddyfile parser indexes an argument list beyond its
\* length: parseCaddyfileAppConfig and parseCaddyfileHandlerConfig return a
\* configuration or a parse error, and never panic.
C36_NoOutOfRangeArgument ==
    parsed.done => parsed.err # "panic"

====
